---- MODULE Spec2Model ----
(***************************************************************************)
(* Model of mas-server's format-described runtime validator                *)
(* (src/src/utils/validType.ts) and of the static type it is paired with   *)
(* (src/src/utils/typeFromValidFormat.ts).                                 *)
(*                                                                         *)
(* JavaScript values are records tagged by k, the lower-cased tag that     *)
(* Object.prototype.toString reports for them.  Format descriptors are     *)
(* JavaScript values too: constructors are functions with a name, the      *)
(* optional sentinels are the string '?' and the number -1, array          *)
(* descriptors are arrays and object descriptors are objects whose keys    *)
(* keep their insertion order (the order Object.keys walks them in).       *)
(*                                                                         *)
(* A call of validType has three outcomes: it returns true, it returns     *)
(* false, or it throws.  They are the strings "true", "false", "throw".    *)
(*                                                                         *)
(* The second part models the request pipeline of                          *)
(* src/src/getApp/apiHandler.ts (createApiHandler) with validToken of      *)
(* tokenUtils and res.reply / res.return of src/src/utils/quickSend.ts:    *)
(* one request goes through the checks, one action per check               *)
(* (specification PipelineSpec).                                           *)
(***************************************************************************)
EXTENDS Integers, Sequences, FiniteSets, TLC

VARIABLES value, format, strict, pc, result

\* One request going through the handler createApiHandler builds: the
\* request, the loaded API module, the application's configuration, the
\* position in the handler, the checks run so far, the arguments of the
\* replies the pipeline itself made, the responses sent, the calls of the
\* module's handler and the calls of next.
VARIABLES req, mod, appConfig, ppc, log, replies, sent, handlerCalls, nextCalls

\* the faults passed to next, in the order of the calls
VARIABLES errors

\* tokenUtils: the clock getTimestamp reads, the token createToken made
\* (with the arguments and the clock of the call), and the last call of
\* validToken at the present clock value (its arguments and its result)
VARIABLES now, made, verdict

tokenVars == <<now, made, verdict>>

\* Requests in flight together through one handler of createApiHandler:
\* the requests, where each one is (not yet arrived, suspended at the
\* awaited handler, finished), what the pipeline decided for each, and the
\* order they arrived in
VARIABLES reqs, phase, outcomes, admitted

concurrentVars == <<reqs, phase, outcomes, admitted>>

\* The CORS middleware of openCors: the store its closure keeps, the
\* corsUrl it was opened with, what it answered the latest request with,
\* and every header name a request has listed so far
VARIABLES store, corsUrl, corsRes, listed

corsVars == <<store, corsUrl, corsRes, listed>>

validatorVars == <<value, format, strict, pc, result>>

pipelineVars == <<req, mod, appConfig, ppc, log, replies, sent, handlerCalls, nextCalls, errors>>

vars == <<value, format, strict, pc, result,
          req, mod, appConfig, ppc, log, replies, sent, handlerCalls, nextCalls, errors,
          now, made, verdict, reqs, phase, outcomes, admitted,
          store, corsUrl, corsRes, listed>>

----------------------------------------------------------------------------
(* JavaScript values *)

Undefined == [k |-> "undefined"]
Null == [k |-> "null"]
Str(s) == [k |-> "string", s |-> s]
Num(n) == [k |-> "number", n |-> n]
Bool(b) == [k |-> "boolean", b |-> b]
Arr(items) == [k |-> "array", items |-> items]
\* an object: its own enumerable keys in insertion order, and their values
Obj(keys, fields) == [k |-> "object", keys |-> keys, fields |-> fields]
\* a function; name is its constructor name ("String", "Array", ...)
Fun(name) == [k |-> "function", name |-> name]

\* Members every plain object inherits from Object.prototype (toString,
\* constructor, valueOf, ...): they are not own keys, yet `key in obj` is
\* true for them and obj[key] reads the inherited function.
ObjectPrototypeKeys == {"toString"}

\* Object.keys(obj) as a set
OwnKeys(obj) == {obj.keys[i] : i \in 1..Len(obj.keys)}

\* obj[key]
Get(obj, key) ==
    IF key \in OwnKeys(obj) THEN obj.fields[key]
    ELSE IF key \in ObjectPrototypeKeys THEN Fun(key)
    ELSE Undefined

\* key in obj
In(key, obj) == key \in OwnKeys(obj) \/ key \in ObjectPrototypeKeys

\* !v : the falsy values
Falsy(v) ==
    \/ v.k \in {"undefined", "null"}
    \/ v.k = "number" /\ (v = [k |-> "number", nan |-> TRUE] \/ v.n = 0)
    \/ v.k = "string" /\ v.s = ""
    \/ v.k = "boolean" /\ v.b = FALSE

IsNullish(v) == v.k \in {"undefined", "null"}

\* String.prototype.toLowerCase on the constructor names in use
ToLowerCase ==
    [n \in {"String", "Number", "Boolean", "Object", "Array", "Date"} |->
        CASE n = "String" -> "string"
          [] n = "Number" -> "number"
          [] n = "Boolean" -> "boolean"
          [] n = "Object" -> "object"
          [] n = "Array" -> "array"
          [] n = "Date" -> "date"]

\* a boolean return value as an outcome
Ret(b) == IF b THEN "true" ELSE "false"

----------------------------------------------------------------------------
(* The descriptors of typeFromValidFormat.ts *)

StringCtor == Fun("String")
NumberCtor == Fun("Number")
BooleanCtor == Fun("Boolean")
ObjectCtor == Fun("Object")
_String == Str("?")
_Number == Num(-1)

BasicTypeDescriptor == {StringCtor, NumberCtor, BooleanCtor, ObjectCtor}
OptionalDescriptor == {_String, _Number}

----------------------------------------------------------------------------
(* validType.ts *)

\* getType as `typeof` would give it: arrays and null are "object"
getType_typeof(v) == IF v.k \in {"array", "null"} THEN "object" ELSE v.k

getType(v) == v.k

isOptionalDescriptor(f) == f = _String \/ f = _Number

\* validOptional that lets only undefined, and not null, stand for absence
validOptional_nullIsPresent(v, f) ==
    IF v = Undefined THEN TRUE
    ELSE IF f = _String THEN getType(v) = "string"
    ELSE getType(v) = "number"

validOptional(v, f) ==
    IF IsNullish(v) THEN TRUE
    ELSE IF f = _String THEN getType(v) = "string"
    ELSE getType(v) = "number"

isOptionalArrayFieldFormat(f) ==
    /\ f.k = "array"
    /\ Len(f.items) > 0
    /\ (f.items[1] = _String \/ f.items[1] = _Number)

\* validOptionalArrayField without its `value.length === 0` test
validOptionalArrayField_emptyPasses(v, element) ==
    IF IsNullish(v) THEN TRUE
    ELSE IF v.k # "array" THEN FALSE
    ELSE \A i \in 1..Len(v.items) :
            IF element = _String THEN getType(v.items[i]) = "string"
            ELSE getType(v.items[i]) = "number"

validOptionalArrayField(v, element) ==
    IF IsNullish(v) THEN TRUE
    ELSE IF v.k # "array" THEN FALSE
    ELSE IF Len(v.items) = 0 THEN FALSE
    ELSE \A i \in 1..Len(v.items) :
            IF element = _String THEN getType(v.items[i]) = "string"
            ELSE getType(v.items[i]) = "number"

validBaseType(v, descriptor) == getType(v) = ToLowerCase[descriptor.name]

RECURSIVE validType(_, _, _)
RECURSIVE validObjectFields(_, _, _, _)
RECURSIVE validArrayItems(_, _, _, _)

\* the loop over Object.keys(format) of validObject, from the i-th key on
validObjectFields(obj, f, s, i) ==
    IF i > Len(f.keys) THEN "true"
    ELSE LET key == f.keys[i]
             v == Get(obj, key)
             childFormat == f.fields[key]
         IN  IF Falsy(childFormat) THEN "false"
             ELSE IF isOptionalArrayFieldFormat(childFormat)
                  THEN IF ~validOptionalArrayField(v, childFormat.items[1])
                       THEN "false"
                       ELSE validObjectFields(obj, f, s, i + 1)
             ELSE IF isOptionalDescriptor(childFormat)
                  THEN IF ~validOptional(v, childFormat)
                       THEN "false"
                       ELSE validObjectFields(obj, f, s, i + 1)
             ELSE IF IsNullish(v) THEN "false"
             ELSE LET r == validType(v, childFormat, s)
                  IN  IF r = "true" THEN validObjectFields(obj, f, s, i + 1)
                      ELSE r

\* validObject that, in strict mode, stops after the test of the key set
validObject_strictKeysOnly(v, f, s) ==
    IF getType(v) # "object" \/ v = Null THEN "false"
    ELSE IF s THEN Ret(\A key \in OwnKeys(v) : In(key, f))
    ELSE validObjectFields(v, f, s, 1)

validObject(v, f, s) ==
    IF getType(v) # "object" \/ v = Null THEN "false"
    ELSE IF s /\ \E key \in OwnKeys(v) : ~In(key, f) THEN "false"
    ELSE validObjectFields(v, f, s, 1)

\* the loop over the items of validArray, from the i-th item on
validArrayItems(v, elementFormat, s, i) ==
    IF i > Len(v.items) THEN "true"
    ELSE LET r == validType(v.items[i], elementFormat, s)
         IN  IF r = "true" THEN validArrayItems(v, elementFormat, s, i + 1)
             ELSE r

\* validArray without its `value.length === 0` test
validArray_emptyPasses(v, f, s) ==
    IF v.k # "array" THEN "false"
    ELSE IF Len(f.items) = 0 \/ Falsy(f.items[1]) THEN "throw"
    ELSE validArrayItems(v, f.items[1], s, 1)

validArray(v, f, s) ==
    IF v.k # "array" THEN "false"
    ELSE IF Len(v.items) = 0 THEN "false"
    ELSE IF Len(f.items) = 0 \/ Falsy(f.items[1]) THEN "throw"
    ELSE validArrayItems(v, f.items[1], s, 1)

\* validType with the null test ahead of the optional-sentinel test
validType_nullTestFirst(v, f, s) ==
    IF IsNullish(v) THEN "false"
    ELSE IF isOptionalDescriptor(f) THEN Ret(validOptional(v, f))
    ELSE IF getType(f) = "function" THEN Ret(validBaseType(v, f))
    ELSE IF f.k = "array" THEN validArray(v, f, s)
    ELSE IF getType(f) = "object" THEN validObject(v, f, s)
    ELSE "false"

validType(v, f, s) ==
    IF isOptionalDescriptor(f) THEN Ret(validOptional(v, f))
    ELSE IF IsNullish(v) THEN "false"
    ELSE IF getType(f) = "function" THEN Ret(validBaseType(v, f))
    ELSE IF f.k = "array" THEN validArray(v, f, s)
    ELSE IF getType(f) = "object" THEN validObject(v, f, s)
    ELSE "false"

----------------------------------------------------------------------------
(* typeFromValidFormat.ts: the static types, as the sets of values that
   inhabit them.  An operator named after a type takes a value first and
   says whether the value is an inhabitant of the type.  null and undefined
   inhabit no type but undefined's own (strict null checks); an object type
   admits further properties, and an optional property may be missing or
   undefined. *)

RECURSIVE ValidFormat(_)
\* f is a descriptor of the grammar `ValidFormat`
ValidFormat(f) ==
    \/ f \in BasicTypeDescriptor
    \/ f \in OptionalDescriptor
    \/ f.k = "object" /\ \A key \in OwnKeys(f) : ValidFormat(f.fields[key])
    \/ f.k = "array" /\ \A i \in 1..Len(f.items) : ValidFormat(f.items[i])

PrimitiveFromDescriptor(v, d) ==
    CASE d = StringCtor -> v.k = "string"
      [] d = NumberCtor -> v.k = "number"
      [] d = BooleanCtor -> v.k = "boolean"
      [] d = ObjectCtor -> v.k = "object"
      [] OTHER -> FALSE

PrimitiveFromOptionalDescriptor(v, d) ==
    CASE d = _String -> v.k = "string"
      [] d = _Number -> v.k = "number"
      [] OTHER -> FALSE

\* the keys of the object descriptor f that become optional properties
OptionalKeys(f) ==
    {key \in OwnKeys(f) :
        \/ f.fields[key] \in OptionalDescriptor
        \/ /\ f.fields[key].k = "array"
           /\ \E i \in 1..Len(f.fields[key].items) :
                  f.fields[key].items[i] \in OptionalDescriptor}

RequiredKeys(f) == OwnKeys(f) \ OptionalKeys(f)

RECURSIVE TypeFromValidFormat(_, _)
TypeFromValidFormat(v, f) ==
    IF f \in BasicTypeDescriptor THEN PrimitiveFromDescriptor(v, f)
    ELSE IF f \in OptionalDescriptor THEN PrimitiveFromOptionalDescriptor(v, f)
    ELSE IF f.k = "array"
    THEN \* (infer U)[] : U is the union of the templates' types
         /\ v.k = "array"
         /\ \A i \in 1..Len(v.items) :
               \E j \in 1..Len(f.items) : TypeFromValidFormat(v.items[i], f.items[j])
    ELSE IF f.k = "object"
    THEN /\ v.k = "object"
         /\ \A key \in RequiredKeys(f) :
               key \in OwnKeys(v) /\ TypeFromValidFormat(v.fields[key], f.fields[key])
         /\ \A key \in OptionalKeys(f) :
               \/ key \notin OwnKeys(v)
               \/ v.fields[key] = Undefined
               \/ TypeFromValidFormat(v.fields[key], f.fields[key])
    ELSE TRUE  \* unknown

----------------------------------------------------------------------------
(* The inputs the calls are checked on *)

\* longest array of scalars among the values
MaxLen == 2

SeqsUpTo(S, n) == UNION {[1..m -> S] : m \in 0..n}

\* objects over the keys of the sequence ks, each value drawn from S
ObjsOver(ks, S) == {Obj(ks, fs) : fs \in [{ks[i] : i \in 1..Len(ks)} -> S]}

Scalars == {Undefined, Null, Str("s"), Num(1), Bool(TRUE)}

\* key orders of the request objects; "toString" is an own key that has the
\* name of an inherited member
ValueKeys == {<<>>, <<"a">>, <<"b">>, <<"a", "b">>, <<"toString">>, <<"a", "toString">>}

ScalarArrays == {Arr(s) : s \in SeqsUpTo(Scalars, MaxLen)}

FlatObjects == UNION {ObjsOver(ks, Scalars) : ks \in ValueKeys}

\* the arrays and objects of scalars
Flat == ScalarArrays \cup FlatObjects

\* a few of them, for the positions where every combination is too many
FlatFew ==
    { Arr(<<>>), Arr(<<Str("s")>>), Arr(<<Num(1)>>), Arr(<<Null>>),
      Obj(<<>>, <<>>),
      Obj(<<"a">>, [x \in {"a"} |-> Str("s")]),
      Obj(<<"a", "b">>, [x \in {"a", "b"} |-> IF x = "a" THEN Str("s") ELSE Num(1)]) }

Nested ==
    {Arr(<<x>>) : x \in Flat}
    \cup {Arr(<<x, y>>) : x \in FlatFew, y \in FlatFew}
    \cup ObjsOver(<<"a">>, Flat)
    \cup {Obj(<<"a", "b">>, [x \in {"a", "b"} |-> IF x = "a" THEN u ELSE w]) :
            u \in ScalarArrays \cup FlatFew, w \in {Null, Str("s"), Num(1)}}

Values == Scalars \cup Flat \cup Nested

\* descriptors of depth 0: the basic ones, the sentinels, two other
\* constructors and two other literals (one truthy, one falsy)
Format0 ==
    BasicTypeDescriptor \cup OptionalDescriptor
    \cup {Fun("Array"), Fun("Date"), Str("x"), Num(0)}

FieldFew == {StringCtor, NumberCtor, ObjectCtor, _String, _Number}

FormatArrays1 ==
    {Arr(<<>>)} \cup {Arr(<<f>>) : f \in Format0}
    \cup {Arr(<<StringCtor, NumberCtor>>), Arr(<<_String, StringCtor>>)}

FormatObjects1 ==
    {Obj(<<>>, <<>>)} \cup ObjsOver(<<"a">>, Format0) \cup ObjsOver(<<"b">>, FieldFew)
    \cup ObjsOver(<<"a", "b">>, FieldFew)

Format1 == FormatArrays1 \cup FormatObjects1

Format2 ==
    {Arr(<<f>>) : f \in Format1}
    \cup ObjsOver(<<"a">>, Format1)
    \cup UNION {ObjsOver(ks, FormatArrays1 \cup {StringCtor, _String}) :
                 ks \in {<<"a", "b">>, <<"b", "a">>}}

Formats == Format0 \cup Format1 \cup Format2

\* no request is in the pipeline
PipelineIdle ==
    /\ req = [k |-> "undefined"]
    /\ mod = [k |-> "undefined"]
    /\ appConfig = [k |-> "undefined"]
    /\ ppc = "idle"
    /\ log = <<>>
    /\ replies = <<>>
    /\ sent = <<>>
    /\ handlerCalls = 0
    /\ nextCalls = 0
    /\ errors = <<>>

\* no token has been made or validated; the clock of the pipeline's runs
TokenIdle ==
    /\ now = 5
    /\ made = [k |-> "undefined"]
    /\ verdict = [k |-> "undefined"]

\* the CORS middleware is not opened
CorsIdle ==
    /\ store = <<>>
    /\ corsUrl = [k |-> "undefined"]
    /\ corsRes = [k |-> "undefined"]
    /\ listed = {}

\* no requests are in flight together
ConcurrentIdle ==
    /\ reqs = <<>>
    /\ phase = <<>>
    /\ outcomes = <<>>
    /\ admitted = <<>>

Init ==
    /\ value \in Values
    /\ format \in Formats
    /\ strict \in BOOLEAN
    /\ pc = "call"
    /\ result = "none"
    /\ PipelineIdle
    /\ TokenIdle
    /\ ConcurrentIdle
    /\ CorsIdle

\* one call validType(value, format, strict)
Call ==
    /\ pc = "call"
    /\ result' = validType(value, format, strict)
    /\ pc' = "done"
    /\ UNCHANGED <<value, format, strict>>
    /\ UNCHANGED pipelineVars
    /\ UNCHANGED tokenVars
    /\ UNCHANGED concurrentVars
    /\ UNCHANGED corsVars

Next == Call

Spec == Init /\ [][Next]_vars

----------------------------------------------------------------------------
(* What the properties below speak of *)

Done == pc = "done"

\* the scalar kind an optional sentinel stands for
SentinelKind(s) == IF s = _String THEN "string" ELSE "number"

\* the runtime kind a basic descriptor declares
DeclaredKind(d) ==
    CASE d = StringCtor -> "string"
      [] d = NumberCtor -> "number"
      [] d = BooleanCtor -> "boolean"
      [] d = ObjectCtor -> "object"

\* v is absent, or a non-empty array whose elements are all of s's kind
OptionalArrayOk(v, s) ==
    \/ IsNullish(v)
    \/ /\ v.k = "array"
       /\ Len(v.items) > 0
       /\ \A i \in 1..Len(v.items) : v.items[i].k = SentinelKind(s)

IsArrayFormat(f) == f.k = "array"
IsObjectFormat(f) == f.k = "object"

\* the descriptor shapes the validator is documented to recognise
Recognized(f) ==
    \/ f \in BasicTypeDescriptor \cup OptionalDescriptor
    \/ IsArrayFormat(f) /\ Len(f.items) = 1
    \/ IsObjectFormat(f)

----------------------------------------------------------------------------
(* C1 *)

\* C1: whenever the format is the empty array descriptor [], validType
\* throws, for every value and every strict flag; it never returns a boolean.
C1_EmptyArrayFormatAlwaysThrows ==
    (Done /\ format = Arr(<<>>)) => result = "throw"

(* C2 *)

\* C2: for every format that is not a recognised descriptor (other
\* constructors such as Array or Date, other literals, arrays of several
\* templates) validType returns false for every value.  The empty array
\* descriptor is left to C1.
C2_UnrecognizedFormatFailsClosed ==
    (Done /\ ~Recognized(format) /\ format # Arr(<<>>)) => result = "false"

(* C3 *)

\* C3: for an optional-array descriptor [s], at any position (the format
\* itself, the element template of an outer array, an object field), a
\* null/undefined value passes and any other value passes iff it is a
\* non-empty array whose every element is of the sentinel's scalar kind.
C3_OptionalArrayAtAnyPosition ==
    Done => \A s \in OptionalDescriptor :
        /\ format = Arr(<<s>>) =>
              (result = "true" <=> OptionalArrayOk(value, s))
        /\ (format = Arr(<<Arr(<<s>>)>>) /\ value.k = "array" /\ Len(value.items) > 0) =>
              (result = "true" <=>
                  \A i \in 1..Len(value.items) : OptionalArrayOk(value.items[i], s))
        /\ (format = Obj(<<"a">>, [x \in {"a"} |-> Arr(<<s>>)]) /\ value.k = "object" /\ ~strict) =>
              (result = "true" <=> OptionalArrayOk(Get(value, "a"), s))
(* C4 *)

\* obj without its own key `key`
Without(obj, key) ==
    Obj(SelectSeq(obj.keys, LAMBDA x : x # key),
        [x \in OwnKeys(obj) \ {key} |-> obj.fields[x]])

\* C4: for an object descriptor field declared [_String] or [_Number]: when
\* the field is missing, undefined, null or a non-empty array of strings
\* (resp. numbers) the field is passed, i.e. the object validates exactly as
\* it would without that field; a present empty array, an array holding
\* null and an array with an element of the wrong kind fail the whole object.
C4_OptionalArrayField ==
    (Done /\ IsObjectFormat(format) /\ value.k = "object") =>
        \A key \in OwnKeys(format) : \A s \in OptionalDescriptor :
            format.fields[key] = Arr(<<s>>) =>
                IF OptionalArrayOk(Get(value, key), s)
                THEN result = validType(Without(value, key), Without(format, key), strict)
                ELSE result # "true"

\* the field a is declared [_String] and is missing, b is required: passes
C4_Witness ==
    /\ Done
    /\ format = Obj(<<"a", "b">>, [x \in {"a", "b"} |-> IF x = "a" THEN Arr(<<_String>>) ELSE StringCtor])
    /\ value = Obj(<<"b">>, [x \in {"b"} |-> Str("s")])
    /\ result = "true"

(* C5 *)

\* C5: for every basic descriptor D and every value v, validType(v, D) is
\* true iff v's runtime kind is the kind D declares (for Object: a non-array,
\* non-null object); null and undefined fail for every basic descriptor.
C5_BasicDescriptorMatchesKind ==
    (Done /\ format \in BasicTypeDescriptor) =>
        result = Ret(value.k = DeclaredKind(format))

\* an array is checked against Object and fails
C5_Witness ==
    Done /\ format = ObjectCtor /\ value.k = "array" /\ result = "false"

(* C6 *)

RECURSIVE HasUndeclaredKey(_, _)
\* v holds, at some level the descriptor f reaches, an own key that the
\* object descriptor of that level does not declare
HasUndeclaredKey(v, f) ==
    IF IsObjectFormat(f) /\ v.k = "object"
    THEN \/ \E key \in OwnKeys(v) : key \notin OwnKeys(f)
         \/ \E key \in OwnKeys(f) \cap OwnKeys(v) :
                HasUndeclaredKey(v.fields[key], f.fields[key])
    ELSE IF IsArrayFormat(f) /\ Len(f.items) > 0 /\ v.k = "array"
    THEN \E i \in 1..Len(v.items) : HasUndeclaredKey(v.items[i], f.items[1])
    ELSE FALSE

\* C6: for every object descriptor D and value v, if validType(v, D, true)
\* is true then validType(v, D, false) is true; and when the non-strict call
\* is true but the strict one is not, v holds an undeclared key at some
\* nesting level.
C6_StrictImpliesNonStrict ==
    (Done /\ IsObjectFormat(format) /\ result = "true") =>
        IF strict
        THEN validType(value, format, FALSE) = "true"
        ELSE validType(value, format, TRUE) # "true" => HasUndeclaredKey(value, format)

\* a non-strict pass that strict mode rejects for a key one level down
C6_Witness ==
    /\ Done /\ ~strict /\ result = "true"
    /\ IsObjectFormat(format) /\ value.k = "object"
    /\ OwnKeys(value) \subseteq OwnKeys(format)
    /\ validType(value, format, TRUE) = "false"

(* C7 *)

\* the sub-descriptor is an optional sentinel, in scalar or in array form
IsOptionalField(c) ==
    c \in OptionalDescriptor \/ (IsArrayFormat(c) /\ Len(c.items) > 0 /\ c.items[1] \in OptionalDescriptor)

\* the field value v meets its sub-descriptor c
FieldValid(v, c, s) ==
    IF c \in OptionalDescriptor THEN IsNullish(v) \/ v.k = SentinelKind(c)
    ELSE IF IsOptionalField(c) THEN OptionalArrayOk(v, c.items[1])
    ELSE ~IsNullish(v) /\ validType(v, c, s) = "true"

\* C7: for an object descriptor, in strict and in non-strict mode, every
\* declared key is validated against its sub-descriptor; a declared key
\* that is not an optional sentinel and is missing, undefined or null fails
\* the whole object; a declared optional-sentinel key that is missing,
\* undefined or null passes (the object validates as it would without it).
C7_DeclaredKeysValidated ==
    (Done /\ IsObjectFormat(format) /\ value.k = "object") =>
        \A key \in OwnKeys(format) :
            LET c == format.fields[key]
                v == Get(value, key)
            IN  /\ result = "true" => FieldValid(v, c, strict)
                /\ (~IsOptionalField(c) /\ IsNullish(v)) => result # "true"
                /\ (IsOptionalField(c) /\ IsNullish(v)) =>
                      result = validType(Without(value, key), Without(format, key), strict)

\* strict mode, the optional key a is missing and the required key b is there
C7_Witness ==
    /\ Done /\ strict
    /\ format = Obj(<<"a", "b">>, [x \in {"a", "b"} |-> IF x = "a" THEN _String ELSE StringCtor])
    /\ value = Obj(<<"b">>, [x \in {"b"} |-> Str("s")])
    /\ result = "true"

(* C8 *)

\* C8: for an array descriptor [E] whose template E is not an optional
\* sentinel, validType(v, [E], strict) is true iff v is an array, is not
\* empty, and every element validates against E with the same strict flag.
C8_ArrayDescriptor ==
    (Done /\ IsArrayFormat(format) /\ Len(format.items) = 1
          /\ format.items[1] \notin OptionalDescriptor) =>
        (result = "true" <=>
            /\ value.k = "array"
            /\ Len(value.items) > 0
            /\ \A i \in 1..Len(value.items) :
                  validType(value.items[i], format.items[1], strict) = "true")

\* two objects checked in strict mode against an object template
C8_Witness ==
    /\ Done /\ strict /\ result = "true"
    /\ IsArrayFormat(format) /\ Len(format.items) = 1 /\ IsObjectFormat(format.items[1])
    /\ value.k = "array" /\ Len(value.items) = 2

(* C9 *)

\* C9: for the optional-scalar sentinels validType passes undefined and
\* null, passes a value of the sentinel's scalar kind and fails every other
\* value; for every other descriptor a null or undefined value fails.
C9_OptionalScalar ==
    Done =>
        IF format \in OptionalDescriptor
        THEN result = Ret(IsNullish(value) \/ value.k = SentinelKind(format))
        ELSE IsNullish(value) => result = "false"

\* null is checked against the optional-number sentinel and passes
C9_Witness ==
    Done /\ format = _Number /\ value = Null /\ result = "true"
(* C10 *)

\* C10: for every format descriptor F and every value v, v is an inhabitant
\* of the static type TypeFromValidFormat<F> iff validType(v, F) returns
\* true.
C10_TypeAgreesWithValidator ==
    (Done /\ ~strict /\ ValidFormat(format)) =>
        (TypeFromValidFormat(value, format) <=> result = "true")

----------------------------------------------------------------------------
(* Strings of the request pipeline.  The operations on them are tables over
   the strings the requests and configurations below are built from. *)

\* Number.NaN : a value of kind number that is no integer
NaN == [k |-> "number", nan |-> TRUE]

\* String.prototype.toLowerCase
toLowerCase(s) ==
    CASE s = "GET" -> "get"
      [] s = "POST" -> "post"
      [] s = "X-H" -> "x-h"
      [] OTHER -> s

\* String.prototype.toUpperCase
toUpperCase(s) ==
    CASE s = "get" -> "GET"
      [] s = "post" -> "POST"
      [] OTHER -> s

\* String.prototype.includes
includes(s, sub) ==
    \/ sub = ""
    \/ s = sub
    \/ s = "application/json" /\ sub = "json"

\* a conversion that gives undefined, not NaN, for what spells no number
ToNumber_orUndefined(s) ==
    CASE s = "12" -> Num(12)
      [] s = "1" -> Num(1)
      [] s = "" -> Num(0)
      [] OTHER -> Undefined

\* Number(s) of a header string
ToNumber(s) ==
    CASE s = "12" -> Num(12)
      [] s = "1" -> Num(1)
      [] s = "" -> Num(0)
      [] OTHER -> NaN

\* String(v) of a header value
StringOf(v) ==
    IF v.k = "string" THEN v.s
    ELSE IF v.k = "array" /\ Len(v.items) = 1 THEN v.items[1].s
    ELSE "(other)"

\* v?.[key] on a value of any kind
GetProp(v, key) == IF v.k = "object" THEN Get(v, key) ELSE Undefined

\* req.headers[name]
Header(headers, name) == IF name \in DOMAIN headers THEN headers[name] ELSE Undefined

\* JSON.stringify(v), as the string holding v's JSON text
JsonText(v) == [k |-> "string", json |-> v]

----------------------------------------------------------------------------
(* tokenUtils: the clock, the decoder and validToken *)

\* getTimestamp()
Now == now

\* The tokens of the runs and what decode(token, key) gives for them under
\* the application's key; decode gives false for anything else.
TokenPayloads ==
    [t \in {"good", "user", "old", "plain"} |->
        CASE t = "good" -> [data |-> Str("d"), _permission |-> Arr(<<Str("admin")>>), _masTime |-> Num(9)]
          [] t = "user" -> [data |-> Str("d"), _permission |-> Arr(<<Str("user")>>), _masTime |-> Undefined]
          [] t = "old" -> [data |-> Str("d"), _permission |-> Arr(<<Str("admin")>>), _masTime |-> Num(3)]
          [] t = "plain" -> [data |-> Null, _permission |-> Undefined, _masTime |-> Undefined]]

\* encode(data, key): a string that holds what it decodes to, and under
\* which key
encode(data, key) == [k |-> "string", s |-> "sealed", sealed |-> data, key |-> key]

decode(token, key) ==
    IF token.k = "string" /\ token.s = "sealed"
    THEN IF token.key = key THEN token.sealed ELSE Bool(FALSE)
    ELSE IF token.k = "string" /\ token.s \in DOMAIN TokenPayloads /\ key = "8087"
    THEN TokenPayloads[token.s]
    ELSE Bool(FALSE)

\* tPermission.filter(value => permission.includes(value)).length == 0
NoSharedPermission(tPermission, permission) ==
    ~\E i \in 1..Len(tPermission.items) : \E j \in 1..Len(permission.items) :
        tPermission.items[i] = permission.items[j]

\* validToken that looks at the expiry before the permissions
validToken_expiryFirst(token, permission, key) ==
    IF Falsy(token)
    THEN [status |-> 0, msg |-> "no token", errorCode |-> 0, token |-> token]
    ELSE LET decodedToken == decode(token, key)
         IN  IF decodedToken = Bool(FALSE)
             THEN [status |-> 0, msg |-> "bad token", errorCode |-> 1, token |-> token]
             ELSE IF decodedToken._masTime # Num(0)
                     /\ decodedToken._masTime.k = "number"
                     /\ Now > decodedToken._masTime.n
             THEN [status |-> 0, msg |-> "expired", errorCode |-> 3, token |-> token]
             ELSE IF Len(permission.items) # 0 /\ Falsy(decodedToken._permission)
             THEN [status |-> 0, msg |-> "permission", errorCode |-> 2, token |-> token]
             ELSE IF Len(permission.items) # 0
                     /\ NoSharedPermission(decodedToken._permission, permission)
             THEN [status |-> 0, msg |-> "permission", errorCode |-> 2, token |-> token]
             ELSE [status |-> 1, data |-> decodedToken.data,
                   _permission |-> decodedToken._permission,
                   _masTime |-> decodedToken._masTime]

validToken(token, permission, key) ==
    IF Falsy(token)
    THEN [status |-> 0, msg |-> "no token", errorCode |-> 0, token |-> token]
    ELSE LET decodedToken == decode(token, key)
         IN  IF decodedToken = Bool(FALSE)
             THEN [status |-> 0, msg |-> "bad token", errorCode |-> 1, token |-> token]
             ELSE IF Len(permission.items) # 0 /\ Falsy(decodedToken._permission)
             THEN [status |-> 0, msg |-> "permission", errorCode |-> 2, token |-> token]
             ELSE IF Len(permission.items) # 0
                     /\ NoSharedPermission(decodedToken._permission, permission)
             THEN [status |-> 0, msg |-> "permission", errorCode |-> 2, token |-> token]
             ELSE IF decodedToken._masTime # Num(0)
                     /\ decodedToken._masTime.k = "number"
                     /\ Now > decodedToken._masTime.n
             THEN [status |-> 0, msg |-> "expired", errorCode |-> 3, token |-> token]
             ELSE [status |-> 1, data |-> decodedToken.data,
                   _permission |-> decodedToken._permission,
                   _masTime |-> decodedToken._masTime]

----------------------------------------------------------------------------
(* quickSend.ts: res.return and res.reply.  A response is the HTTP status
   code and the body handed to res.send; the body is an object. *)

\* JSON.stringify(data)
stringify(data) ==
    IF data.k \in {"undefined", "function"} THEN Undefined ELSE JsonText(data)

\* res.return(data, status = 1, code = 200, msg = ''): what it sends
return(data, status, code, msg) ==
    LET status0 == IF status = Undefined THEN Num(1) ELSE status
        code0 == IF code = Undefined THEN Num(200) ELSE code
        msg0 == IF msg = Undefined THEN Str("") ELSE msg
        status1 == IF IsNullish(data) THEN Num(0) ELSE status0
        data1 == IF data.k = "string" THEN data ELSE stringify(data)
    IN  [code |-> code0,
         body |-> Obj(<<"msg", "status", "data">>,
                      [msg |-> msg0,
                       status |-> Num(IF Falsy(status1) THEN 0 ELSE 1),
                       data |-> IF IsNullish(data1) THEN Null ELSE data1])]

\* res.reply(data, status, code = 200, msg = ''): what it sends
reply(data, status, code, msg) ==
    LET finalStatus == IF IsNullish(status)
                       THEN Num(IF Falsy(data) THEN 0 ELSE 1)
                       ELSE status
        code0 == IF code = Undefined THEN Num(200) ELSE code
        msg0 == IF msg = Undefined THEN Str("") ELSE msg
    IN  return(data, finalStatus, code0, msg0)

----------------------------------------------------------------------------
(* apiHandler.ts: the helpers of the GET branch *)

\* isGetQueryStringValue that takes string[] as well
isGetQueryStringValue_orArray(v) == v.k \in {"string", "array"}

isGetQueryStringValue(v) == v.k = "string"

\* normalizeGetQuery without its `continue`: null and undefined values are
\* copied like strings
normalizeGetQuery_keepsAbsent(query) ==
    IF Falsy(query) \/ query.k # "object"
    THEN [ok |-> FALSE, value |-> Undefined]
    ELSE IF \E key \in OwnKeys(query) :
                /\ ~IsNullish(query.fields[key])
                /\ ~isGetQueryStringValue(query.fields[key])
    THEN [ok |-> FALSE, value |-> Undefined]
    ELSE [ok |-> TRUE, value |-> query]

\* the result of normalizeGetQuery: ok, and the normalized object when ok
normalizeGetQuery(query) ==
    IF Falsy(query) \/ query.k # "object"
    THEN [ok |-> FALSE, value |-> Undefined]
    ELSE IF \E key \in OwnKeys(query) :
                /\ ~IsNullish(query.fields[key])
                /\ ~isGetQueryStringValue(query.fields[key])
    THEN [ok |-> FALSE, value |-> Undefined]
    ELSE LET kept == SelectSeq(query.keys, LAMBDA key : ~IsNullish(query.fields[key]))
         IN  [ok |-> TRUE,
              value |-> Obj(kept, [key \in {kept[i] : i \in 1..Len(kept)} |->
                                      query.fields[key]])]

\* isGetOnlyStringFormat that asks for a flat object only, of any scalars
isGetOnlyStringFormat_anyScalar(f) ==
    /\ ~Falsy(f)
    /\ f.k = "object"
    /\ \A key \in OwnKeys(f) : f.fields[key].k \in {"function", "string", "number"}

isGetOnlyStringFormat(f) ==
    /\ ~Falsy(f)
    /\ f.k = "object"
    /\ \A key \in OwnKeys(f) : f.fields[key] = StringCtor \/ f.fields[key] = _String

----------------------------------------------------------------------------
(* apiHandler.ts: the checks of createApiHandler, each as what it decides
   for a request: it lets the request pass, it rejects it with a code and a
   message, or it throws. *)

\* o?.[f] on a configuration object
Opt(o, f) == IF IsNullish(o) THEN Undefined ELSE o[f]

Pass == [t |-> "pass", code |-> Num(0), msg |-> Str("")]
Reject(code, msg) == [t |-> "reject", code |-> Num(code), msg |-> Str(msg)]
Throw == [t |-> "throw", code |-> Num(0), msg |-> Str("")]

\* the filePath createApiHandler is given
filePath == "api/user.ts"

\* `if (!handler)`
handlerCheck(m) ==
    IF Falsy(m.handler) THEN Reject(500, "API module exports no handler: " \o filePath)
    ELSE Pass

\* the methods check comparing the method as the request spells it
methodsCheck_caseSensitive(r, c) ==
    LET methods == IF IsNullish(Opt(c, "methods")) THEN Str("all") ELSE c.methods
    IN  IF methods # Str("all") /\ Str(r.method) # methods
        THEN Reject(405, "Method Not Allowed")
        ELSE Pass

methodsCheck(r, c) ==
    LET methods == IF IsNullish(Opt(c, "methods")) THEN Str("all") ELSE c.methods
    IN  IF methods # Str("all") /\ Str(toLowerCase(r.method)) # methods
        THEN Reject(405, "Method Not Allowed")
        ELSE Pass

\* the content-type check without the test of content-length
contentTypeCheck_noLengthTest(r, c) ==
    IF Falsy(Opt(c, "contentType")) THEN Pass
    ELSE LET hasBody == toUpperCase(r.method) # "GET"
             h == Header(r.headers, "content-type")
             ct == IF IsNullish(h) THEN Str("") ELSE h
         IN  IF hasBody /\ ~includes(StringOf(ct), c.contentType.s)
             THEN Reject(400, "Content-Type mismatch")
             ELSE Pass

contentTypeCheck(r, c) ==
    IF Falsy(Opt(c, "contentType")) THEN Pass
    ELSE LET hasBody == /\ toUpperCase(r.method) # "GET"
                        /\ Header(r.headers, "content-length") # Undefined
             h == Header(r.headers, "content-type")
             ct == IF IsNullish(h) THEN Str("") ELSE h
         IN  IF hasBody /\ ~includes(StringOf(ct), c.contentType.s)
             THEN Reject(400, "Content-Type mismatch")
             ELSE Pass

RECURSIVE headerEntries(_, _, _)
\* the loop over Object.entries(cfg.header), from the i-th entry on
headerEntries(r, header, i) ==
    IF i > Len(header.keys) THEN Pass
    ELSE LET key == header.keys[i]
             f == header.fields[key]
             raw == Header(r.headers, toLowerCase(key))
             v == IF raw.k = "array"
                  THEN IF Len(raw.items) > 0 THEN raw.items[1] ELSE Undefined
                  ELSE raw
         IN  IF IsNullish(v) THEN Reject(400, "Missing Header: " \o key)
             ELSE LET n1 == IF f = NumberCtor THEN ToNumber(v.s) ELSE v
                      normalized == IF f = BooleanCtor
                                    THEN Bool(v.s \in {"true", "1", "yes"})
                                    ELSE n1
                      ok == validType(normalized, f, FALSE)
                  IN  IF ok = "throw" THEN Throw
                      ELSE IF ok = "false" THEN Reject(400, "Header type error: " \o key)
                      ELSE headerEntries(r, header, i + 1)

headerCheck(r, c) ==
    IF Falsy(Opt(c, "header")) THEN Pass ELSE headerEntries(r, c.header, 1)

\* the token switch without the application's half
tokenEnabled_endpointOnly(a, c) == ~Falsy(Opt(c, "token"))

\* `appConfig?.token?.open && cfg?.token`
tokenEnabled(a, c) == ~Falsy(Opt(Opt(a, "token"), "open")) /\ ~Falsy(Opt(c, "token"))

\* the token the check reads: header ?? query ?? body
extractToken(r, a) ==
    LET hp == Opt(Opt(a, "token"), "headerParams")
        tokenKey == IF Falsy(hp) THEN "" ELSE hp.s
        fromHeader == Header(r.headers, toLowerCase(tokenKey))
        fromQuery == GetProp(r.query, tokenKey)
        fromBody == GetProp(r.body, tokenKey)
    IN  IF ~IsNullish(fromHeader) THEN fromHeader
        ELSE IF ~IsNullish(fromQuery) THEN fromQuery
        ELSE fromBody

\* validToken's result for the request
tokenResult(r, c, a) ==
    validToken(extractToken(r, a),
               IF IsNullish(c.permission) THEN Arr(<<>>) ELSE c.permission,
               a.token.pwd)

tokenCheck(r, c, a) ==
    IF ~tokenEnabled(a, c) THEN Pass
    ELSE LET res == tokenResult(r, c, a)
         IN  IF res.status = 0 THEN Reject(401, res.msg) ELSE Pass

\* the GET branch taking its parameters from req.body
getBranch_readsBody(r, c) ==
    IF ~isGetOnlyStringFormat(c.requestFormat)
    THEN Reject(500, "GET requestFormat must be flat String/_String")
    ELSE LET normalized == normalizeGetQuery(r.body)
         IN  IF ~normalized.ok
             THEN Reject(400, "GET parameters must be strings")
             ELSE LET ok == validType(normalized.value, c.requestFormat,
                                      ~Falsy(c.strict))
                  IN  IF ok = "throw" THEN Throw
                      ELSE IF ok = "false"
                      THEN Reject(400, "request parameter format error")
                      ELSE Pass

\* the GET branch: the check of the format, normalizeGetQuery, validType
getBranch(r, c) ==
    IF ~isGetOnlyStringFormat(c.requestFormat)
    THEN Reject(500, "GET requestFormat must be flat String/_String")
    ELSE LET normalized == normalizeGetQuery(r.query)
         IN  IF ~normalized.ok
             THEN Reject(400, "GET parameters must be strings")
             ELSE LET ok == validType(normalized.value, c.requestFormat,
                                      ~Falsy(c.strict))
                  IN  IF ok = "throw" THEN Throw
                      ELSE IF ok = "false"
                      THEN Reject(400, "request parameter format error")
                      ELSE Pass

\* the other branch: validType on req.body
bodyBranch(r, c) ==
    LET ok == validType(r.body, c.requestFormat, ~Falsy(c.strict))
    IN  IF ok = "throw" THEN Throw
        ELSE IF ok = "false"
        THEN Reject(400, "request parameter format error")
        ELSE Pass

isGetRequest(r) == toUpperCase(r.method) = "GET"

requestFormatCheck(r, c) ==
    IF Falsy(Opt(c, "requestFormat")) THEN Pass
    ELSE IF isGetRequest(r) THEN getBranch(r, c)
    ELSE bodyBranch(r, c)

----------------------------------------------------------------------------
(* apiHandler.ts: the handler createApiHandler returns, one action per
   check.  A check that rejects replies and returns; a check that throws
   lands in the catch clause, which calls next(err). *)

cfg == mod.config

\* new Error(message)
Error(message) == [k |-> "error", message |-> Str(message)]

\* err?.message
MessageOf(err) == IF err.k = "error" THEN err.message ELSE Undefined

\* the fault validArray throws for an empty array descriptor
EmptyArrayFormatError == Error("illegal format: array format must not be empty")

\* Step on a response that has no reply installed: `reply?.(...)` does nothing
Step_noReply(stage, o, to) ==
    /\ ppc = stage
    /\ log' = Append(log, stage)
    /\ ppc' = IF o.t = "pass" THEN to ELSE "done"
    /\ nextCalls' = IF o.t = "throw" THEN nextCalls + 1 ELSE nextCalls
    /\ errors' = IF o.t = "throw" THEN Append(errors, EmptyArrayFormatError) ELSE errors
    /\ UNCHANGED <<mod, appConfig, handlerCalls, replies, sent>>
    /\ UNCHANGED validatorVars
    /\ UNCHANGED corsVars
    /\ UNCHANGED tokenVars
    /\ UNCHANGED concurrentVars

\* Step without the `return` in front of the reply: the handler goes on
Step_noReturn(stage, o, to) ==
    /\ ppc = stage
    /\ log' = Append(log, stage)
    /\ ppc' = IF o.t = "throw" THEN "done" ELSE to
    /\ replies' = IF o.t = "reject"
                  THEN Append(replies, [data |-> Null, status |-> Num(0),
                                        code |-> o.code, msg |-> o.msg])
                  ELSE replies
    /\ sent' = IF o.t = "reject"
               THEN Append(sent, reply(Null, Num(0), o.code, o.msg))
               ELSE sent
    /\ nextCalls' = IF o.t = "throw" THEN nextCalls + 1 ELSE nextCalls
    /\ errors' = IF o.t = "throw" THEN Append(errors, EmptyArrayFormatError) ELSE errors
    /\ UNCHANGED <<mod, appConfig, handlerCalls>>
    /\ UNCHANGED validatorVars
    /\ UNCHANGED corsVars
    /\ UNCHANGED tokenVars
    /\ UNCHANGED concurrentVars

\* the step of one check with its outcome o, leading to position to
Step(stage, o, to) ==
    /\ ppc = stage
    /\ log' = Append(log, stage)
    /\ ppc' = IF o.t = "pass" THEN to ELSE "done"
    /\ replies' = IF o.t = "reject"
                  THEN Append(replies, [data |-> Null, status |-> Num(0),
                                        code |-> o.code, msg |-> o.msg])
                  ELSE replies
    /\ sent' = IF o.t = "reject"
               THEN Append(sent, reply(Null, Num(0), o.code, o.msg))
               ELSE sent
    /\ nextCalls' = IF o.t = "throw" THEN nextCalls + 1 ELSE nextCalls
    /\ errors' = IF o.t = "throw" THEN Append(errors, EmptyArrayFormatError) ELSE errors
    /\ UNCHANGED <<mod, appConfig, handlerCalls>>
    /\ UNCHANGED validatorVars
    /\ UNCHANGED corsVars
    /\ UNCHANGED tokenVars
    /\ UNCHANGED concurrentVars

CheckHandlerExists ==
    /\ Step("entry", handlerCheck(mod), "methods")
    /\ UNCHANGED req

CheckMethods ==
    /\ Step("methods", methodsCheck(req, cfg), "contentType")
    /\ UNCHANGED req

CheckContentType ==
    /\ Step("contentType", contentTypeCheck(req, cfg), "header")
    /\ UNCHANGED req

CheckHeader ==
    /\ Step("header", headerCheck(req, cfg), "token")
    /\ UNCHANGED req

CheckToken ==
    /\ Step("token", tokenCheck(req, cfg, appConfig), "requestFormat")
    /\ req' = IF ppc = "token" /\ tokenEnabled(appConfig, cfg)
                 /\ tokenCheck(req, cfg, appConfig).t = "pass"
              THEN [req EXCEPT !.tokenData = tokenResult(req, cfg, appConfig)]
              ELSE req

CheckRequestFormat ==
    /\ Step("requestFormat", requestFormatCheck(req, cfg), "handler")
    /\ UNCHANGED req

\* `await handler(req, res)`: the call
InvokeHandler ==
    /\ ppc = "handler"
    /\ ppc' = "running"
    /\ log' = Append(log, "handler")
    /\ handlerCalls' = handlerCalls + 1
    /\ UNCHANGED <<req, mod, appConfig, replies, sent, nextCalls, errors>>
    /\ UNCHANGED validatorVars
    /\ UNCHANGED corsVars
    /\ UNCHANGED tokenVars
    /\ UNCHANGED concurrentVars

\* the module's handler answers through res.reply or res.return
HandlerReplies ==
    /\ ppc = "running"
    /\ mod.handler.does.t \in {"reply", "return"}
    /\ sent = <<>>
    /\ LET a == mod.handler.does
       IN  sent' = Append(sent, IF a.t = "reply"
                                THEN reply(a.data, a.status, a.code, a.msg)
                                ELSE return(a.data, a.status, a.code, a.msg))
    /\ UNCHANGED <<req, mod, appConfig, ppc, log, replies, handlerCalls, nextCalls, errors>>
    /\ UNCHANGED validatorVars
    /\ UNCHANGED corsVars
    /\ UNCHANGED tokenVars
    /\ UNCHANGED concurrentVars

\* the module's handler returns
HandlerReturns ==
    /\ ppc = "running"
    /\ mod.handler.does.t # "throw"
    /\ mod.handler.does.t \in {"reply", "return"} => sent # <<>>
    /\ ppc' = "done"
    /\ UNCHANGED <<req, mod, appConfig, log, replies, sent, handlerCalls, nextCalls, errors>>
    /\ UNCHANGED validatorVars
    /\ UNCHANGED corsVars
    /\ UNCHANGED tokenVars
    /\ UNCHANGED concurrentVars

\* the module's handler throws: `catch (err) { return next(err) }`
HandlerThrows ==
    /\ ppc = "running"
    /\ mod.handler.does.t = "throw"
    /\ ppc' = "done"
    /\ nextCalls' = nextCalls + 1
    /\ errors' = Append(errors, mod.handler.does.data)
    /\ UNCHANGED <<req, mod, appConfig, log, replies, sent, handlerCalls>>
    /\ UNCHANGED validatorVars
    /\ UNCHANGED corsVars
    /\ UNCHANGED tokenVars
    /\ UNCHANGED concurrentVars

\* the message getApp's error handler answers with
errorMessage(err) ==
    IF ~Falsy(MessageOf(err)) THEN MessageOf(err)
    ELSE Str("system error, please contact the administrator")

\* getApp's error handler, which Express calls with the fault given to next
ErrorResponder ==
    /\ ppc = "done"
    /\ Len(errors) = 1
    /\ sent = <<>>
    /\ sent' = <<reply(Null, Num(0), Num(500), errorMessage(errors[1]))>>
    /\ UNCHANGED <<req, mod, appConfig, ppc, log, replies, handlerCalls, nextCalls, errors>>
    /\ UNCHANGED validatorVars
    /\ UNCHANGED corsVars
    /\ UNCHANGED tokenVars
    /\ UNCHANGED concurrentVars

PipelineNext ==
    \/ CheckHandlerExists
    \/ CheckMethods
    \/ CheckContentType
    \/ CheckHeader
    \/ CheckToken
    \/ CheckRequestFormat
    \/ InvokeHandler
    \/ HandlerReplies
    \/ HandlerReturns
    \/ HandlerThrows
    \/ ErrorResponder

----------------------------------------------------------------------------
(* The requests, modules and configurations the pipeline is checked on.
   Each slice varies the inputs of one check over all their cases and gives
   the other checks a case that passes and cases that fail. *)

HeaderNames == {"content-length", "content-type", "x-h", "token"}

Headers(cl, ct, xh, tok) ==
    [n \in HeaderNames |->
        CASE n = "content-length" -> cl
          [] n = "content-type" -> ct
          [] n = "x-h" -> xh
          [] n = "token" -> tok]

Request(method, headers, query, body) ==
    [method |-> method, headers |-> headers, query |-> query, body |-> body,
     tokenData |-> Undefined]

Config(methods, contentType, header, token, permission, requestFormat, s) ==
    [k |-> "object", methods |-> methods, contentType |-> contentType,
     header |-> header, token |-> token, permission |-> permission,
     requestFormat |-> requestFormat, strict |-> s]

AppConfig(open, headerParams) ==
    [k |-> "object",
     token |-> [k |-> "object", open |-> open, pwd |-> "8087",
                headerParams |-> headerParams]]

\* what the module's handler does when it is called
Does(t, data, status, code, msg) ==
    [t |-> t, data |-> data, status |-> status, code |-> code, msg |-> msg]

Silent == Does("silent", Undefined, Undefined, Undefined, Undefined)
Throws == Does("throw", [k |-> "error", message |-> Str("connect ECONNREFUSED db:5432")],
               Undefined, Undefined, Undefined)

Handler(does) == [k |-> "function", name |-> "handler", does |-> does]

Module(config, handler) == [k |-> "object", config |-> config, handler |-> handler]

\* an object of one or two fields
Obj1(k1, v1) == Obj(<<k1>>, [x \in {k1} |-> v1])
Obj2(k1, v1, k2, v2) == Obj(<<k1, k2>>, [x \in {k1, k2} |-> IF x = k1 THEN v1 ELSE v2])
Empty == Obj(<<>>, <<>>)

RequestMethods == {"GET", "get", "POST"}
ConfigMethods == {Undefined, Str("all"), Str("get"), Str("post")}

ContentLengths == {Undefined, Str("2")}
ContentTypes == {Undefined, Str("application/json"), Str("text/plain")}
ConfigContentTypes == {Undefined, Str("json")}

CustomHeaders == {Undefined, Str("abc"), Str("12"), Str("true"), Arr(<<Str("12"), Str("abc")>>)}
ConfigHeaders ==
    {Undefined} \cup {Obj1("X-H", f) : f \in {StringCtor, NumberCtor, BooleanCtor, _String, Arr(<<>>)}}

TokenStrings == {Undefined, Str(""), Str("good"), Str("user"), Str("old"), Str("junk")}
PayloadTokens == {Undefined, Str(""), Str("plain")}
ConfigTokens == {Undefined, Bool(FALSE), Bool(TRUE)}
ConfigPermissions == {Undefined, Arr(<<Str("admin")>>)}
HeaderParams == {Str("token"), Str("")}

Queries ==
    {Undefined, Str("q"), Arr(<<Str("a")>>), Empty,
     Obj1("name", Str("tingxi")),
     Obj1("name", Undefined),
     Obj1("name", Obj1("a", Str("b"))),
     Obj1("name", Arr(<<Str("a"), Str("b")>>)),
     Obj2("name", Str("tingxi"), "extra", Str("y")),
     Obj2("name", Str("tingxi"), "extra", Arr(<<Str("y")>>)),
     Obj2("name", Str("tingxi"), "extra", Null)}

Bodies ==
    {Undefined, Empty,
     Obj1("name", Str("tingxi")),
     Obj1("name", Num(123)),
     Obj1("name", Arr(<<Str("a"), Str("b")>>)),
     Obj2("name", Str("tingxi"), "extra", Str("y")),
     Arr(<<Str("a")>>)}

RequestFormats ==
    {Undefined, Empty, _String, Arr(<<StringCtor>>), Arr(<<>>),
     Obj1("name", StringCtor),
     Obj1("name", _String),
     Obj1("name", NumberCtor),
     Obj1("name", _Number),
     Obj1("name", Arr(<<StringCtor>>)),
     Obj1("name", Obj1("a", StringCtor)),
     Obj2("name", StringCtor, "extra", _String)}

Stricts == {Undefined, Bool(TRUE)}

\* the answers a handler gives through res.reply and res.return
ReplyData == {Undefined, Null, Num(0), Str(""), Str("ok"), Bool(FALSE), Obj1("name", Str("tingxi"))}
ReplyStatus == {Undefined, Num(0), Num(1), Num(2)}
ReplyCodes == {Undefined, Num(201)}
ReplyMsgs == {Undefined, Str("done")}

\* what a handler throws: errors with a text, an error without, a string
Faults ==
    {Does("throw", e, Undefined, Undefined, Undefined) :
        e \in {[k |-> "error", message |-> Str("connect ECONNREFUSED db:5432")],
                [k |-> "error", message |-> Str("")],
                Str("boom")}}

Answers ==
    {Does(t, d, st, c, m) : t \in {"reply", "return"}, d \in ReplyData,
                            st \in ReplyStatus, c \in ReplyCodes, m \in ReplyMsgs}

\* cases of the other checks: one that passes, one that fails
FewContent == {<<Undefined, Undefined, Undefined>>, <<Str("2"), Str("text/plain"), Str("json")>>}
FewHeader == {<<Undefined, Undefined>>, <<Undefined, Obj1("X-H", StringCtor)>>}
FewToken == {<<Undefined, Bool(FALSE)>>, <<Str("good"), Bool(TRUE)>>, <<Str("junk"), Bool(TRUE)>>}
FewPayload == {<<Undefined, Undefined, Undefined>>,
               <<Obj1("name", Str("tingxi")), Obj1("name", Num(123)), Obj1("name", StringCtor)>>}
FewDoes == {Silent, Throws}

\* the method and content-type checks over all their cases
MethodSlice ==
    \E method \in RequestMethods, methods \in ConfigMethods,
       cl \in ContentLengths, ct \in ContentTypes, cct \in ConfigContentTypes,
       h \in FewHeader, t \in FewToken, p \in FewPayload, does \in FewDoes :
        /\ req = Request(method, Headers(cl, ct, h[1], t[1]), p[1], p[2])
        /\ mod = Module(Config(methods, cct, h[2], t[2], Undefined, p[3], Undefined),
                        Handler(does))
        /\ appConfig = AppConfig(Bool(TRUE), Str("token"))

\* the header check over all its cases
HeaderSlice ==
    \E method \in {"GET", "POST"}, xh \in CustomHeaders, header \in ConfigHeaders,
       c \in FewContent, t \in FewToken, p \in FewPayload, does \in FewDoes :
        /\ req = Request(method, Headers(c[1], c[2], xh, t[1]), p[1], p[2])
        /\ mod = Module(Config(Undefined, c[3], header, t[2], Undefined, p[3], Undefined),
                        Handler(does))
        /\ appConfig = AppConfig(Bool(TRUE), Str("token"))

\* the token check over all its cases
TokenSlice ==
    \E method \in {"GET", "POST"}, tok \in TokenStrings,
       qtok \in PayloadTokens, btok \in PayloadTokens,
       open \in {Bool(TRUE), Bool(FALSE)}, token \in ConfigTokens,
       permission \in ConfigPermissions, hp \in HeaderParams,
       h \in FewHeader, does \in FewDoes :
        /\ req = Request(method, Headers(Undefined, Undefined, h[1], tok),
                         Obj2("name", Str("tingxi"), "token", qtok),
                         Obj2("name", Str("tingxi"), "token", btok))
        /\ mod = Module(Config(Undefined, Undefined, h[2], token, permission,
                               Obj1("name", StringCtor), Undefined),
                        Handler(does))
        /\ appConfig = AppConfig(open, hp)

\* the payload check over all its cases
PayloadSlice ==
    \E method \in RequestMethods, methods \in ConfigMethods,
       query \in Queries, body \in Bodies, requestFormat \in RequestFormats,
       s \in Stricts, t \in FewToken, does \in FewDoes :
        /\ req = Request(method, Headers(Undefined, Undefined, Undefined, t[1]), query, body)
        /\ mod = Module(Config(methods, Undefined, Undefined, t[2], Undefined,
                               requestFormat, s),
                        Handler(does))
        /\ appConfig = AppConfig(Bool(TRUE), Str("token"))

\* the handler's answers over all their cases
AnswerSlice ==
    \E method \in {"GET", "POST"}, does \in Answers \cup Faults :
        /\ req = Request(method, Headers(Undefined, Undefined, Undefined, Undefined),
                         Obj1("name", Str("tingxi")), Obj1("name", Str("tingxi")))
        /\ mod = Module(Config(Undefined, Undefined, Undefined, Undefined, Undefined,
                               Obj1("name", StringCtor), Undefined),
                        Handler(does))
        /\ appConfig = AppConfig(Bool(TRUE), Str("token"))

\* modules without a config, and modules without a handler
BareSlice ==
    \E method \in RequestMethods, body \in Bodies, t \in FewToken,
       handler \in {Undefined, Handler(Silent)}, bare \in BOOLEAN :
      LET config == IF bare THEN Undefined
                    ELSE Config(Str("post"), Undefined, Undefined, t[2], Undefined,
                                Obj1("name", StringCtor), Undefined)
      IN
        /\ handler = Undefined \/ config = Undefined
        /\ req = Request(method, Headers(Undefined, Undefined, Undefined, t[1]),
                         Obj1("name", Str("tingxi")), body)
        /\ mod = Module(config, handler)
        /\ appConfig = AppConfig(Bool(TRUE), Str("token"))

PipelineInit ==
    /\ TokenIdle
    /\ ConcurrentIdle
    /\ CorsIdle
    /\ value = Undefined
    /\ format = Undefined
    /\ strict = FALSE
    /\ pc = "idle"
    /\ result = "none"
    /\ ppc = "entry"
    /\ log = <<>>
    /\ replies = <<>>
    /\ sent = <<>>
    /\ handlerCalls = 0
    /\ nextCalls = 0
    /\ errors = <<>>
    /\ \/ MethodSlice
       \/ HeaderSlice
       \/ TokenSlice
       \/ PayloadSlice
       \/ AnswerSlice
       \/ BareSlice

PipelineSpec == PipelineInit /\ [][PipelineNext]_vars

----------------------------------------------------------------------------
(* What the properties of the pipeline speak of *)

PDone == ppc = "done"

\* the order the source puts the checks in
Order == <<"entry", "methods", "contentType", "header", "token", "requestFormat", "handler">>

\* what a check decides for the request
Outcome(stage) ==
    CASE stage = "entry" -> handlerCheck(mod)
      [] stage = "methods" -> methodsCheck(req, cfg)
      [] stage = "contentType" -> contentTypeCheck(req, cfg)
      [] stage = "header" -> headerCheck(req, cfg)
      [] stage = "token" -> tokenCheck(req, cfg, appConfig)
      [] stage = "requestFormat" -> requestFormatCheck(req, cfg)
      [] OTHER -> Pass

\* the position of the earliest check that does not let the request pass
\* (7, the handler's position, when every check does)
RECURSIVE FirstStop(_)
FirstStop(i) == IF i >= 7 \/ Outcome(Order[i]).t # "pass" THEN i ELSE FirstStop(i + 1)

\* the request was rejected by the pipeline: one reply, made by a check
Rejected == Len(replies) = 1

----------------------------------------------------------------------------
(* C11: the checks run in the fixed order handler-present, method,
   content-type, headers, token, payload, handler, and the pipeline stops
   at the first check that fails: what has run is always an initial part
   of that order that ends no later than the earliest failing check; the
   one rejection made is the earliest failing check's, with its code; and
   once a check has failed no tokenData is attached after it and the
   handler is not called. *)
C11_FixedOrderShortCircuit ==
    ppc # "idle" =>
        LET stop == FirstStop(1)
        IN  /\ Len(log) <= stop
            /\ \A i \in 1..Len(log) : log[i] = Order[i]
            /\ PDone /\ stop < 7 =>
                /\ Len(log) = stop
                /\ handlerCalls = 0
                /\ stop <= 5 => req.tokenData = Undefined
                /\ Outcome(Order[stop]).t = "reject" =>
                    /\ Len(replies) = 1
                    /\ replies[1].code = Outcome(Order[stop]).code
                    /\ replies[1].msg = Outcome(Order[stop]).msg
                /\ Outcome(Order[stop]).t = "throw" => replies = <<>>
            /\ stop = 7 => replies = <<>>

\* a request that fails the method check and the token check is answered 405
C11_Witness ==
    /\ PDone
    /\ methodsCheck(req, cfg).t = "reject"
    /\ headerCheck(req, cfg).t = "reject"
    /\ tokenCheck(req, cfg, appConfig).t = "reject"
    /\ Len(replies) = 1
    /\ replies[1].code = Num(405)

----------------------------------------------------------------------------
\* the pipeline rejected the request: one reply of status 0 with a code of
\* the pipeline, and no call of the handler
RejectedOnly ==
    /\ Len(replies) = 1
    /\ replies[1].status = Num(0)
    /\ replies[1].code \in {Num(405), Num(400), Num(401), Num(500)}
    /\ handlerCalls = 0

\* the handler was called exactly once and the pipeline made no reply
HandledOnce == handlerCalls = 1 /\ replies = <<>>

\* a thrown fault was passed to next
Faulted == nextCalls >= 1

Count(b) == IF b THEN 1 ELSE 0

(* C12, as stated: for a finished request exactly one of these holds: the
   pipeline made exactly one rejection (status 0, code 405, 400, 401 or
   500) and the handler was never called; the handler was called exactly
   once and the pipeline made no reply; a thrown fault was passed to next. *)
C12_ExactlyOneOutcome ==
    PDone => Count(RejectedOnly) + Count(HandledOnce) + Count(Faulted) = 1

(* C12, amended: for a finished request exactly one of these holds: the
   pipeline made exactly one rejection (status 0, code 405, 400, 401 or
   500), the handler was never called and next was not called; the handler
   was called exactly once, returned without a fault, and the pipeline made
   no reply; a fault thrown by a check or by the handler was passed to next
   exactly once and the pipeline made no reply.  In every state the handler
   has been called at most once, the pipeline has replied at most once, and
   a rejection and a handler call never both occur. *)
C12_OneOutcomeFaultApart ==
    /\ handlerCalls <= 1
    /\ Len(replies) <= 1
    /\ ~(Len(replies) >= 1 /\ handlerCalls >= 1)
    /\ PDone =>
        Count(RejectedOnly /\ nextCalls = 0)
        + Count(HandledOnce /\ nextCalls = 0)
        + Count(nextCalls = 1 /\ replies = <<>>) = 1

\* the handler was called once and threw: the fault went to next
C12_Witness == PDone /\ handlerCalls = 1 /\ nextCalls = 1 /\ replies = <<>>

----------------------------------------------------------------------------
\* what the i-th check of the order was seen to do with the request, once
\* it has run: let it pass, reject it, or throw
Observed(i) ==
    IF Len(log) > i \/ ppc # "done" THEN Pass
    ELSE IF replies # <<>> THEN [t |-> "reject", code |-> replies[1].code, msg |-> replies[1].msg]
    ELSE Throw

\* the payload check has run on a configured requestFormat
PayloadChecked == Len(log) >= 6 /\ ~Falsy(Opt(cfg, "requestFormat"))

(* C13: the payload source goes by the methods the endpoint is configured
   with: the GET branch (format restriction, query normalizer) is taken
   only when methods is 'get'; with methods 'all', absent or 'post' the
   validator is applied to the request body whatever the request's
   method. *)
C13_SourceByConfiguredMethods ==
    PayloadChecked =>
        Observed(6) = IF Opt(cfg, "methods") = Str("get")
                      THEN getBranch(req, cfg)
                      ELSE bodyBranch(req, cfg)

----------------------------------------------------------------------------
\* the request's method is GET, in any case of letters
IsGet == req.method \in {"GET", "get"}

\* f is a flat object whose every field is String or '?'
FlatStringFormat(f) ==
    /\ f.k = "object"
    /\ \A i \in 1..Len(f.keys) : f.fields[f.keys[i]] \in {Fun("String"), Str("?")}

(* C14: a GET request that reaches the payload check of an endpoint with a
   requestFormat is rejected with code 500 if and only if the format is
   not a flat object whose every field is String or '?'; this holds for
   every query, and a request rejected so does not reach the handler. *)
C14_GetFormatRestriction ==
    PayloadChecked /\ IsGet =>
        /\ (Observed(6).t = "reject" /\ Observed(6).code = Num(500))
            <=> ~FlatStringFormat(cfg.requestFormat)
        /\ ~FlatStringFormat(cfg.requestFormat) => handlerCalls = 0

\* a GET request whose query satisfies { name: Number }'s string reading is
\* rejected 500 all the same
C14_Witness ==
    /\ PDone
    /\ PayloadChecked
    /\ IsGet
    /\ cfg.requestFormat = Obj1("name", NumberCtor)
    /\ req.query = Obj1("name", Str("tingxi"))
    /\ Len(replies) = 1
    /\ replies[1].code = Num(500)
    /\ handlerCalls = 0

----------------------------------------------------------------------------
\* the payload check has handed the request's query to normalizeGetQuery
Normalized == PayloadChecked /\ IsGet /\ FlatStringFormat(cfg.requestFormat)

\* the keys of q that hold a string
StringKeys(q) == {key \in OwnKeys(q) : q.fields[key].k = "string"}

(* C15: normalizeGetQuery(q) gives ok:false if and only if q is not a
   non-array object or some key of q holds a value that is neither null
   nor undefined nor a string, and the request is then rejected 400;
   otherwise it gives ok:true with an object whose keys are exactly the
   keys of q that hold a string, each with its string unchanged, the keys
   holding null or undefined left out. *)
C15_NormalizeGetQuery ==
    Normalized =>
        LET q == req.query
            n == normalizeGetQuery(q)
            bad == \/ q.k # "object"
                   \/ \E i \in 1..Len(q.keys) :
                        q.fields[q.keys[i]].k \notin {"null", "undefined", "string"}
        IN  /\ ~n.ok <=> bad
            /\ bad => Observed(6).t = "reject" /\ Observed(6).code = Num(400)
            /\ n.ok =>
                /\ n.value.k = "object"
                /\ OwnKeys(n.value) = StringKeys(q)
                /\ \A key \in StringKeys(q) : n.value.fields[key] = q.fields[key]

\* a query with a null-valued extra key passes a strict { name: String }
C15_Witness ==
    /\ PDone
    /\ Normalized
    /\ req.query = Obj2("name", Str("tingxi"), "extra", Null)
    /\ cfg.requestFormat = Obj1("name", StringCtor)
    /\ cfg.strict = Bool(TRUE)
    /\ normalizeGetQuery(req.query).value = Obj1("name", Str("tingxi"))
    /\ handlerCalls = 1

----------------------------------------------------------------------------
\* some parameter of the query holds a nested object or an array
HasStructuredParameter(q) ==
    /\ q.k = "object"
    /\ \E i \in 1..Len(q.keys) : q.fields[q.keys[i]].k \in {"object", "array"}

(* C16: a GET request to an endpoint with a legal GET requestFormat, one
   of whose query parameters, declared in the format or not, holds a
   nested object or an array: the handler is never called, and once the
   request is at the payload check it is rejected with code 400. *)
C16_StructuredQueryRejected ==
    /\ IsGet
    /\ ~IsNullish(cfg)
    /\ ~Falsy(cfg.requestFormat)
    /\ FlatStringFormat(cfg.requestFormat)
    /\ HasStructuredParameter(req.query)
    => /\ handlerCalls = 0
       /\ ppc \notin {"handler", "running"}
       /\ Len(log) >= 6 =>
            /\ PDone
            /\ Len(replies) = 1
            /\ replies[1].code = Num(400)
            /\ replies[1].status = Num(0)

\* an array under a key the format does not declare, in non-strict mode
C16_Witness ==
    /\ PDone
    /\ IsGet
    /\ ~IsNullish(cfg)
    /\ cfg.requestFormat = Obj1("name", StringCtor)
    /\ cfg.strict = Undefined
    /\ req.query = Obj2("name", Str("tingxi"), "extra", Arr(<<Str("y")>>))
    /\ Len(log) = 6
    /\ Len(replies) = 1
    /\ replies[1].code = Num(400)
    /\ handlerCalls = 0

----------------------------------------------------------------------------
(* C17: for a GET request the payload check reads only the query: what the
   check does with the request is what it does with the same request
   carrying any other body, and a request whose query satisfies the
   requestFormat is not rejected by the check whatever its body is. *)
C17_GetIgnoresBody ==
    PayloadChecked /\ IsGet =>
        /\ \A b \in Bodies :
              Observed(6) = requestFormatCheck([req EXCEPT !.body = b], cfg)
        /\ FlatStringFormat(cfg.requestFormat)
           /\ normalizeGetQuery(req.query).ok
           /\ validType(normalizeGetQuery(req.query).value, cfg.requestFormat,
                        ~Falsy(cfg.strict)) = "true"
           => Observed(6) = Pass

\* query { name: 'tingxi' } with body { name: 123 } reaches the handler
C17_Witness ==
    /\ PDone
    /\ PayloadChecked
    /\ IsGet
    /\ cfg.requestFormat = Obj1("name", StringCtor)
    /\ req.query = Obj1("name", Str("tingxi"))
    /\ req.body = Obj1("name", Num(123))
    /\ validType(req.body, cfg.requestFormat, FALSE) = "false"
    /\ handlerCalls = 1
    /\ replies = <<>>

----------------------------------------------------------------------------
\* the token check has run with token validation switched on
TokenChecked == Len(log) >= 5 /\ tokenEnabled(appConfig, cfg)

\* v is a token value that is there and is not the empty string
NonEmptyToken(v) == ~IsNullish(v) /\ v # Str("")

\* the first non-empty one of the header's, the query's and the body's token
FirstNonEmptyToken ==
    LET hp == appConfig.token.headerParams
        tokenKey == IF Falsy(hp) THEN "" ELSE hp.s
        fromHeader == Header(req.headers, toLowerCase(tokenKey))
        fromQuery == GetProp(req.query, tokenKey)
        fromBody == GetProp(req.body, tokenKey)
    IN  IF NonEmptyToken(fromHeader) THEN fromHeader
        ELSE IF NonEmptyToken(fromQuery) THEN fromQuery
        ELSE fromBody

(* C18: when token validation runs, the token it validates is the first
   non-empty one of the header's, the query's and the body's: an empty
   string in the header does not keep a non-empty token of the query or
   the body from being used. *)
C18_FirstNonEmptyTokenWins ==
    TokenChecked =>
        LET res == validToken(FirstNonEmptyToken,
                              IF IsNullish(cfg.permission) THEN Arr(<<>>)
                              ELSE cfg.permission,
                              appConfig.token.pwd)
        IN  Observed(5) = IF res.status = 0
                          THEN [t |-> "reject", code |-> Num(401), msg |-> Str(res.msg)]
                          ELSE Pass

----------------------------------------------------------------------------
\* token validation is switched on for the application and for the endpoint
EnabledBoth ==
    /\ appConfig.token.open = Bool(TRUE)
    /\ ~IsNullish(cfg)
    /\ cfg.token = Bool(TRUE)

(* C19: token validation runs if and only if it is switched on both for
   the application (appConfig.token.open) and for the endpoint
   (config.token).  When it runs and fails, the request is rejected with
   code 401 and validToken's message, and the handler is not called; when
   it runs and succeeds, validToken's result, the decoded payload, is on
   the request as tokenData from then on, so before the handler is called;
   when it does not run, and before it has run, tokenData is not set. *)
C19_TokenValidation ==
    ppc # "idle" =>
        /\ Len(log) < 5 => req.tokenData = Undefined
        /\ Len(log) >= 5 =>
            IF ~EnabledBoth
            THEN Observed(5) = Pass /\ req.tokenData = Undefined
            ELSE LET res == tokenResult(req, cfg, appConfig)
                 IN  IF res.status = 0
                     THEN /\ Observed(5) = [t |-> "reject", code |-> Num(401),
                                            msg |-> Str(res.msg)]
                          /\ handlerCalls = 0
                          /\ req.tokenData = Undefined
                     ELSE /\ Observed(5) = Pass
                          /\ req.tokenData = res
                          /\ res.status = 1
                          /\ res.data = decode(extractToken(req, appConfig),
                                               appConfig.token.pwd).data

\* a request with a valid token of the permission asked for reaches the
\* handler with the decoded payload attached
C19_Witness ==
    /\ PDone
    /\ EnabledBoth
    /\ cfg.permission = Arr(<<Str("admin")>>)
    /\ req.headers["token"] = Str("good")
    /\ req.tokenData = [status |-> 1, data |-> Str("d"),
                        _permission |-> Arr(<<Str("admin")>>), _masTime |-> Num(9)]
    /\ handlerCalls = 1

----------------------------------------------------------------------------
(* C20: every response sent through res.reply or res.return is an object
   with exactly the fields status, code, msg and data, where status is 0
   or 1 and code is the numeric code the call was given (200 when it was
   given none). *)
C20_ResponseEnvelope ==
    \A i \in 1..Len(sent) :
        LET body == sent[i].body
        IN  /\ body.k = "object"
            /\ OwnKeys(body) = {"status", "code", "msg", "data"}
            /\ Get(body, "status") \in {Num(0), Num(1)}
            /\ Get(body, "code") = sent[i].code

----------------------------------------------------------------------------
\* the handler has answered through res.reply
Replied == handlerCalls = 1 /\ mod.handler.does.t = "reply" /\ sent # <<>>

(* C21: for res.reply(data, status, code, msg): when status is omitted the
   response's status is 1 if data is present and 0 otherwise; when status
   is given the response carries it, as 0 or 1; code is 200 when
   omitted. *)
C21_ReplyStatus ==
    Replied =>
        LET a == mod.handler.does
            r == sent[1]
        IN  /\ Get(r.body, "status") =
                  IF IsNullish(a.status)
                  THEN Num(IF IsNullish(a.data) THEN 0 ELSE 1)
                  ELSE Num(IF Falsy(a.status) THEN 0 ELSE 1)
            /\ r.code = IF a.code = Undefined THEN Num(200) ELSE a.code

----------------------------------------------------------------------------
\* a fault was thrown while the request was in the pipeline or the handler
FaultThrown ==
    \/ FirstStop(1) < 7 /\ Outcome(Order[FirstStop(1)]).t = "throw"
    \/ handlerCalls = 1 /\ mod.handler.does.t = "throw"

\* the error responder has answered the request
ErrorAnswered == ppc = "done" /\ Len(errors) = 1 /\ sent # <<>>

(* C22: a fault thrown while the pipeline or the handler runs is passed to
   next exactly once, and the error responder then answers with code 500,
   status 0 and a generic message that does not show the fault's own
   text. *)
C22_FaultsAnsweredGenerically ==
    /\ PDone /\ FaultThrown => nextCalls = 1 /\ Len(errors) = 1
    /\ ErrorAnswered =>
        /\ sent[1].code = Num(500)
        /\ Get(sent[1].body, "status") = Num(0)
        /\ Get(sent[1].body, "msg") = Str("system error, please contact the administrator")
        /\ Get(sent[1].body, "msg") # MessageOf(errors[1])

----------------------------------------------------------------------------
\* the methods the endpoint is configured with, 'all' when it has none
MethodClass == IF IsNullish(Opt(cfg, "methods")) THEN "all" ELSE cfg.methods.s

\* the request's method differs from m, whatever the case of its letters
MethodDiffers(m) ==
    \/ m = "get" /\ req.method \notin {"GET", "get"}
    \/ m = "post" /\ req.method \notin {"POST", "post"}

(* C23: with the configured methods taken as 'all' when absent, the
   methods check rejects a request, with code 405, if and only if the
   configured methods is not 'all' and the request's HTTP method differs
   from it regardless of case; under 'all' no request is rejected for its
   method, and no other check answers 405. *)
C23_MethodNotAllowed ==
    /\ Len(log) >= 2 =>
        /\ Observed(2).t = "reject" <=> MethodClass # "all" /\ MethodDiffers(MethodClass)
        /\ Observed(2).t = "reject" => Observed(2).code = Num(405)
        /\ Observed(2).t # "throw"
    /\ \A i \in 1..Len(replies) : replies[i].code = Num(405) => Len(log) = 2

\* a POST-only endpoint turns a lower-case get request away
C23_Witness ==
    /\ PDone
    /\ ~IsNullish(cfg)
    /\ cfg.methods = Str("post")
    /\ req.method = "get"
    /\ Len(replies) = 1
    /\ replies[1].code = Num(405)
    /\ handlerCalls = 0

----------------------------------------------------------------------------
\* the request's content-type header, the empty string when it has none,
\* contains the substring the endpoint is configured with
ContentTypeContains ==
    LET ct == IF req.headers["content-type"] = Undefined THEN ""
              ELSE req.headers["content-type"].s
    IN  \/ cfg.contentType.s = "json" /\ ct = "application/json"
        \/ cfg.contentType.s = ct

(* C24: the content-type check rejects, with code 400, if and only if a
   contentType is configured, the request is not a GET request, it has a
   content-length header, and its content-type (empty when absent) does
   not contain the configured substring; in every other case the check
   lets the request pass. *)
C24_ContentTypeCheck ==
    Len(log) >= 3 =>
        /\ Observed(3).t \in {"pass", "reject"}
        /\ Observed(3).t = "reject" <=>
            /\ ~IsNullish(cfg)
            /\ cfg.contentType # Undefined
            /\ ~IsGet
            /\ req.headers["content-length"] # Undefined
            /\ ~ContentTypeContains
        /\ Observed(3).t = "reject" => Observed(3).code = Num(400)

\* a POST with a body and no content-type is turned away
C24_Witness ==
    /\ PDone
    /\ Len(log) = 3
    /\ req.method = "POST"
    /\ req.headers["content-length"] = Str("2")
    /\ req.headers["content-type"] = Undefined
    /\ cfg.contentType = Str("json")
    /\ Len(replies) = 1
    /\ replies[1].code = Num(400)

----------------------------------------------------------------------------
\* the header check has run on a configured header descriptor
HeaderChecked == Len(log) >= 4 /\ ~Falsy(Opt(cfg, "header"))

\* the value of the request's header for the configured name X-H, looked up
\* as x-h: the first one when the header was sent several times
HeaderValue ==
    LET raw == req.headers["x-h"]
    IN  IF raw.k = "array" THEN raw.items[1] ELSE raw

\* the strings that spell a number
NumericStrings == {"12", "1"}

RejectedByHeaderCheck == Observed(4).t = "reject" /\ Observed(4).code = Num(400)

(* C25: for a configured header descriptor the request is rejected with
   code 400 if the header, looked up without regard to case, is missing,
   also when the descriptor is an optional sentinel, or if its value fails
   validation after the Number/Boolean coercion; a header configured as
   Number whose value is not a numeric string is rejected. *)
C25_HeaderRejections ==
    HeaderChecked =>
        LET f == cfg.header.fields["X-H"]
        IN  /\ HeaderValue = Undefined => RejectedByHeaderCheck
            /\ HeaderValue # Undefined /\ f = NumberCtor
               /\ HeaderValue.s \notin NumericStrings => RejectedByHeaderCheck

----------------------------------------------------------------------------
(* C30: for a configured header whose descriptor is Number or Boolean,
   every request that has the header passes the header check whatever the
   header's string is: the coercion always gives a value of the declared
   kind (NaN, of kind number, for a string that spells no number; a
   boolean for any string), so the check rejects such a request only when
   the header is missing. *)
C30_CoercedHeadersAlwaysPass ==
    HeaderChecked /\ cfg.header.fields["X-H"] \in {Fun("Number"), Fun("Boolean")} =>
        /\ HeaderValue # Undefined => Observed(4) = Pass
        /\ HeaderValue = Undefined => RejectedByHeaderCheck
        /\ HeaderValue # Undefined =>
            /\ getType(ToNumber(HeaderValue.s)) = "number"
            /\ getType(Bool(HeaderValue.s \in {"true", "1", "yes"})) = "boolean"

\* the header x-h: abc passes the descriptor Number and the request goes on
C30_Witness ==
    /\ PDone
    /\ HeaderChecked
    /\ cfg.header.fields["X-H"] = NumberCtor
    /\ req.headers["x-h"] = Str("abc")
    /\ ToNumber("abc") = NaN
    /\ Len(log) >= 5
    /\ replies = <<>>

----------------------------------------------------------------------------
(* tokenUtils: createToken and validToken under a clock that advances.
   One token is made at some clock value; validToken is called on it, on
   no token and on a string that is no token, at every clock value. *)

\* createToken that adds the seconds to the clock's milliseconds as they are
createToken_secondsAsMillis(data, time, permission, key) ==
    encode([data |-> data,
            _permission |-> IF Len(permission.items) # 0 THEN permission ELSE Undefined,
            _masTime |-> IF time # 0 THEN Num(time + Now) ELSE Undefined],
           key)

\* createToken({ data, time, permission }, key)
createToken(data, time, permission, key) ==
    encode([data |-> data,
            _permission |-> IF Len(permission.items) # 0 THEN permission ELSE Undefined,
            _masTime |-> IF time # 0 THEN Num(time * 1000 + Now) ELSE Undefined],
           key)

\* the clock, in milliseconds: where it starts, how far a tick moves it,
\* and how many ticks the runs have
StartClock == 10000
ClockStep == 500
MaxTicks == 6

TokenData == {Null, Obj(<<"userId">>, [x \in {"userId"} |-> Num(123)])}
TokenTimes == {-1, 0, 1, 2}
TokenPermissions == {Arr(<<>>), Arr(<<Str("read")>>), Arr(<<Str("read"), Str("write")>>)}
RequiredPermissions ==
    {Arr(<<>>), Arr(<<Str("read")>>), Arr(<<Str("delete")>>), Arr(<<Str("delete"), Str("write")>>)}
TokenKeys == {"8087", "custom"}

\* what validToken is called on
TokensTried ==
    {Undefined, Null, Str(""), Str("invalid_token_string")}
        \cup (IF made = Undefined THEN {} ELSE {made.token})

TokenInit ==
    /\ now = StartClock
    /\ made = Undefined
    /\ verdict = Undefined
    /\ value = Undefined
    /\ format = Undefined
    /\ strict = FALSE
    /\ pc = "idle"
    /\ result = "none"
    /\ PipelineIdle
    /\ ConcurrentIdle
    /\ CorsIdle

CreateToken ==
    /\ made = Undefined
    /\ \E data \in TokenData, time \in TokenTimes,
          permission \in TokenPermissions, key \in TokenKeys :
        made' = [k |-> "object", token |-> createToken(data, time, permission, key),
                 data |-> data, time |-> time, permission |-> permission,
                 key |-> key, at |-> now]
    /\ UNCHANGED <<now, verdict>>
    /\ UNCHANGED validatorVars
    /\ UNCHANGED corsVars
    /\ UNCHANGED pipelineVars
    /\ UNCHANGED concurrentVars

\* time passes
Tick ==
    /\ now < StartClock + MaxTicks * ClockStep
    /\ now' = now + ClockStep
    /\ verdict' = Undefined
    /\ UNCHANGED made
    /\ UNCHANGED validatorVars
    /\ UNCHANGED corsVars
    /\ UNCHANGED pipelineVars
    /\ UNCHANGED concurrentVars

ValidateToken ==
    /\ \E token \in TokensTried, permission \in RequiredPermissions, key \in TokenKeys :
        verdict' = [k |-> "object", token |-> token, permission |-> permission,
                    key |-> key, result |-> validToken(token, permission, key)]
    /\ UNCHANGED <<now, made>>
    /\ UNCHANGED validatorVars
    /\ UNCHANGED corsVars
    /\ UNCHANGED pipelineVars
    /\ UNCHANGED concurrentVars

TokenNext == CreateToken \/ Tick \/ ValidateToken

TokenSpec == TokenInit /\ [][TokenNext]_vars

----------------------------------------------------------------------------
(* What the properties of the tokens speak of *)

\* validToken has been called at the present clock value
Validated == verdict # Undefined

\* the call was given no token
TokenMissing == verdict.token \in {Undefined, Null, Str("")}

\* the call was given the token createToken made, and the key it was made with
TokenDecodes ==
    /\ made # Undefined
    /\ verdict.token = made.token
    /\ verdict.key = made.key

\* the token's permissions and the required ones have an entry in common
SharesPermission ==
    \E i \in 1..Len(made.permission.items), j \in 1..Len(verdict.permission.items) :
        made.permission.items[i] = verdict.permission.items[j]

\* the token was made with an expiry that the clock has passed
Expired == made.time # 0 /\ now > made.at + 1000 * made.time

\* the class validToken puts the call in: its errorCode, or -1 for success
Classified == IF verdict.result.status = 1 THEN -1 ELSE verdict.result.errorCode

(* C26: validToken classifies in a fixed precedence: no token gives
   errorCode 0; otherwise a token that does not decode, the token made
   with another key included, gives errorCode 1; otherwise, when the
   required permission list is not empty, a token whose _permission list
   shares no entry with it, or that has none, gives errorCode 2, and an
   empty required list skips this test; only then the expiry is examined
   and gives errorCode 3; every other call succeeds. *)
C26_TokenClassification ==
    Validated =>
        Classified =
            IF TokenMissing THEN 0
            ELSE IF ~TokenDecodes THEN 1
            ELSE IF Len(verdict.permission.items) # 0 /\ ~SharesPermission THEN 2
            ELSE IF Expired THEN 3
            ELSE -1

\* an expired token without the required permission is a permission error
C26_Witness ==
    /\ Validated
    /\ ~TokenMissing
    /\ TokenDecodes
    /\ Expired
    /\ Len(verdict.permission.items) # 0
    /\ ~SharesPermission
    /\ verdict.result.status = 0
    /\ verdict.result.errorCode = 2

----------------------------------------------------------------------------
\* the call asked for no permission the token lacks
PermissionGranted == Len(verdict.permission.items) = 0 \/ SharesPermission

(* C27: a token made at clock value T with time = t seconds, t not 0,
   validates with the key it was made with at every clock value up to
   T + 1000 * t and is rejected as expired, errorCode 3, at every later
   clock value; a token made with time = 0 has no expiry and validates at
   every later clock value; a successful validation returns the data the
   token was made with. *)
C27_TokenLifetime ==
    Validated /\ ~TokenMissing /\ TokenDecodes /\ PermissionGranted =>
        LET r == verdict.result
        IN  /\ made.time # 0 /\ now <= made.at + 1000 * made.time =>
                r.status = 1 /\ r.data = made.data
            /\ made.time # 0 /\ now > made.at + 1000 * made.time =>
                r.status = 0 /\ r.errorCode = 3
            /\ made.time = 0 =>
                r.status = 1 /\ r.data = made.data /\ r._masTime = Undefined

\* a token of one second is valid one second after it was made and expired
\* half a second later
C27_Witness ==
    /\ Validated
    /\ TokenDecodes
    /\ PermissionGranted
    /\ made.time = 1
    /\ now = made.at + 1500
    /\ verdict.result.status = 0
    /\ verdict.result.errorCode = 3

\* ---------------------------------------------------------------------
\* Requests in flight together.  One handler built by createApiHandler
\* serves several requests; each runs its checks without interruption up
\* to `await handler(req, res)`, is suspended there while other requests
\* arrive, and finishes when its handler settles.  The module, the
\* application configuration and the clock are the only things the
\* requests have in common.
\* ---------------------------------------------------------------------

\* how many requests are in flight together
Requests == 3

\* the checks answering for the request that arrived last before this one
runChecks_lastArrival(r, m, a) ==
    LET c == m.config
        q == IF admitted = <<>> THEN r ELSE reqs[admitted[Len(admitted)]]
    IN  IF handlerCheck(m).t # "pass" THEN handlerCheck(m)
        ELSE IF methodsCheck(q, c).t # "pass" THEN methodsCheck(q, c)
        ELSE IF contentTypeCheck(q, c).t # "pass" THEN contentTypeCheck(q, c)
        ELSE IF headerCheck(q, c).t # "pass" THEN headerCheck(q, c)
        ELSE IF tokenCheck(q, c, a).t # "pass" THEN tokenCheck(q, c, a)
        ELSE requestFormatCheck(q, c)

\* the checks of createApiHandler from its first line to the call of the
\* handler: the first check that does not pass, or Pass
runChecks(r, m, a) ==
    LET c == m.config
    IN  IF handlerCheck(m).t # "pass" THEN handlerCheck(m)
        ELSE IF methodsCheck(r, c).t # "pass" THEN methodsCheck(r, c)
        ELSE IF contentTypeCheck(r, c).t # "pass" THEN contentTypeCheck(r, c)
        ELSE IF headerCheck(r, c).t # "pass" THEN headerCheck(r, c)
        ELSE IF tokenCheck(r, c, a).t # "pass" THEN tokenCheck(r, c, a)
        ELSE requestFormatCheck(r, c)

\* req.tokenData after the checks: written when the token check ran and
\* passed
tokenDataAfter(r, m, a) ==
    IF /\ handlerCheck(m).t = "pass"
       /\ methodsCheck(r, m.config).t = "pass"
       /\ contentTypeCheck(r, m.config).t = "pass"
       /\ headerCheck(r, m.config).t = "pass"
       /\ tokenEnabled(a, m.config)
       /\ tokenCheck(r, m.config, a).t = "pass"
    THEN tokenResult(r, m.config, a)
    ELSE r.tokenData

\* the requests that arrive
ArrivingRequests ==
    {Request("POST", Headers(Undefined, Undefined, Undefined, Str("good")),
             Empty, Obj1("name", Str("tingxi"))),
     Request("POST", Headers(Undefined, Undefined, Undefined, Undefined),
             Empty, Obj1("name", Str("tingxi"))),
     Request("POST", Headers(Undefined, Undefined, Undefined, Str("user")),
             Empty, Obj1("name", Num(123)))}

\* the modules they arrive at
ServingModules ==
    {Module(Config(Undefined, Undefined, Undefined, token, Undefined,
                   Obj1("name", StringCtor), Undefined),
            Handler(does)) :
        token \in {Bool(TRUE)}, does \in FewDoes}

NotArrived == [t |-> "none", code |-> Num(0), msg |-> Str(""), at |-> 0]

ConcurrentInit ==
    /\ value = Undefined
    /\ format = Undefined
    /\ strict = FALSE
    /\ pc = "done"
    /\ result = "none"
    /\ req = Undefined
    /\ ppc = "idle"
    /\ log = <<>>
    /\ replies = <<>>
    /\ sent = <<>>
    /\ handlerCalls = 0
    /\ nextCalls = 0
    /\ errors = <<>>
    /\ TokenIdle
    /\ CorsIdle
    /\ mod \in ServingModules
    /\ appConfig = AppConfig(Bool(TRUE), Str("token"))
    /\ reqs \in [1 .. Requests -> ArrivingRequests]
    /\ phase = [i \in 1 .. Requests |-> "new"]
    /\ outcomes = [i \in 1 .. Requests |-> NotArrived]
    /\ admitted = <<>>

\* request i arrives and runs from the first line of the handler to the
\* first reply, to next(err), or to the await of the module's handler
Admit(i) ==
    /\ phase[i] = "new"
    /\ LET o == runChecks(reqs[i], mod, appConfig)
       IN  /\ outcomes' = [outcomes EXCEPT
                              ![i] = [t |-> o.t, code |-> o.code, msg |-> o.msg,
                                      at |-> Now]]
           /\ phase' = [phase EXCEPT
                           ![i] = IF o.t = "pass" THEN "suspended" ELSE "done"]
    /\ reqs' = [reqs EXCEPT ![i].tokenData = tokenDataAfter(reqs[i], mod, appConfig)]
    /\ admitted' = Append(admitted, i)
    /\ UNCHANGED validatorVars
    /\ UNCHANGED corsVars
    /\ UNCHANGED pipelineVars
    /\ UNCHANGED tokenVars

\* the awaited handler of request i settles
Resume(i) ==
    /\ phase[i] = "suspended"
    /\ phase' = [phase EXCEPT ![i] = "done"]
    /\ outcomes' = [outcomes EXCEPT
                       ![i].t = IF mod.handler.does.t = "throw" THEN "faulted"
                                ELSE "handled"]
    /\ UNCHANGED <<reqs, admitted>>
    /\ UNCHANGED validatorVars
    /\ UNCHANGED corsVars
    /\ UNCHANGED pipelineVars
    /\ UNCHANGED tokenVars

\* time passes between two arrivals: to just after the expiry of the
\* token "good"
Elapse ==
    /\ phase # <<>>
    /\ now <= TokenPayloads["good"]._masTime.n
    /\ now' = TokenPayloads["good"]._masTime.n + 1
    /\ UNCHANGED <<made, verdict>>
    /\ UNCHANGED validatorVars
    /\ UNCHANGED corsVars
    /\ UNCHANGED pipelineVars
    /\ UNCHANGED concurrentVars

AdmitSome == \E i \in 1 .. Requests : Admit(i)

ResumeSome == \E i \in 1 .. Requests : Resume(i)

ConcurrentNext == AdmitSome \/ ResumeSome \/ Elapse

ConcurrentSpec == ConcurrentInit /\ [][ConcurrentNext]_vars

\* request i has run its checks
Arrived(i) == phase[i] # "new"

\* what request i was when it arrived
AsArrived(i) == [reqs[i] EXCEPT !.tokenData = Undefined]

\* accepted or rejected, with the reply of a rejection
Verdict(i) ==
    [accepted |-> outcomes[i].t \in {"pass", "handled", "faulted"},
     code |-> IF outcomes[i].t = "reject" THEN outcomes[i].code ELSE Num(0),
     msg |-> IF outcomes[i].t = "reject" THEN outcomes[i].msg ELSE Str("")]

\* a step of the requests writes nothing they share: the module and the
\* application configuration stay as they are, and only the arriving
\* request and its own outcome change
WritesOnlyItsRequest ==
    /\ mod' = mod
    /\ appConfig' = appConfig
    /\ \A i \in DOMAIN reqs :
         (reqs'[i] # reqs[i] \/ outcomes'[i] # outcomes[i])
         => /\ phase[i] # "done"
            /\ \A j \in DOMAIN reqs \ {i} :
                 reqs'[j] = reqs[j] /\ outcomes'[j] = outcomes[j]

\* C28 as stated: under every interleaving the pipeline writes no state
\* shared across requests and leaves the configuration alone, and the
\* accept/reject outcome of a request depends only on the request, the
\* endpoint config and the app config: two equal requests to the same
\* endpoint get the same outcome whatever arrived between them.
C28_OutcomeByRequestAlone ==
    /\ [][WritesOnlyItsRequest]_vars
    /\ [](\A i, j \in DOMAIN reqs :
            Arrived(i) /\ Arrived(j) /\ AsArrived(i) = AsArrived(j)
            => Verdict(i) = Verdict(j))

\* C28 amended: under every interleaving the pipeline writes no state
\* shared across requests and leaves the configuration alone, and the
\* accept/reject outcome of a request depends only on the request, the
\* endpoint config, the app config and the clock the token check reads:
\* two equal requests to the same endpoint at the same clock reading get
\* the same outcome whatever arrived between them.
C28_OutcomeByRequestAndClock ==
    /\ [][WritesOnlyItsRequest]_vars
    /\ [](\A i, j \in DOMAIN reqs :
            /\ Arrived(i) /\ Arrived(j) /\ AsArrived(i) = AsArrived(j)
            /\ outcomes[i].at = outcomes[j].at
            => /\ Verdict(i) = Verdict(j)
               /\ reqs[i].tokenData = reqs[j].tokenData)

\* two equal requests got the same outcome although a different request,
\* rejected, arrived between them while the first was suspended at its
\* handler
C28_Witness ==
    /\ Len(admitted) = 3
    /\ AsArrived(admitted[1]) = AsArrived(admitted[3])
    /\ AsArrived(admitted[2]) # AsArrived(admitted[1])
    /\ phase[admitted[1]] = "suspended"
    /\ Verdict(admitted[1]).accepted
    /\ ~Verdict(admitted[2]).accepted
    /\ Verdict(admitted[3]) = Verdict(admitted[1])

\* ---------------------------------------------------------------------
\* openCors.  A header value is the sequence of the pieces between its
\* commas: "x-a, x-b" is <<"x-a", " x-b">> and "" is <<"">>.
\* ---------------------------------------------------------------------

\* how many pieces a request's access-control-request-headers has at most
MaxListed == 2

HeaderString(pieces) == [k |-> "string", pieces |-> pieces]

\* String.prototype.trim on the pieces in use
trim(piece) ==
    CASE piece = " x-a" -> "x-a"
      [] piece = " x-b " -> "x-b"
      [] piece = " " -> ""
      [] OTHER -> piece

\* .filter(Boolean) on strings: the empty ones go
RECURSIVE filterBoolean(_)
filterBoolean(names) ==
    IF names = <<>> THEN <<>>
    ELSE IF Head(names) = "" THEN filterBoolean(Tail(names))
    ELSE <<Head(names)>> \o filterBoolean(Tail(names))

\* requestedHeaders.split(',').map((h) => h.trim()).filter(Boolean)
splitTrimFilter(requestedHeaders) ==
    filterBoolean([i \in 1 .. Len(requestedHeaders.pieces) |->
                      trim(requestedHeaders.pieces[i])])

\* [...new Set(names)]: each name once, at the place it first has
RECURSIVE spreadSet(_)
spreadSet(names) ==
    IF names = <<>> THEN <<>>
    ELSE LET front == spreadSet(SubSeq(names, 1, Len(names) - 1))
             last == names[Len(names)]
         IN  IF \E i \in 1 .. Len(front) : front[i] = last
             THEN front
             ELSE Append(front, last)

\* a store that keeps only what the latest request listed
mergeHeaders_latestOnly(allowHeader, headers) == spreadSet(headers)

\* [...new Set([...store.allowHeader, ...headers])]
mergeHeaders(allowHeader, headers) == spreadSet(allowHeader \o headers)

\* store.allowHeader.join(', '): the names with ", " between them
RECURSIVE join(_)
join(names) ==
    IF names = <<>> THEN <<>>
    ELSE IF Len(names) = 1 THEN names
    ELSE <<Head(names), ", ">> \o join(Tail(names))

\* allowedUrls.some(url => url === origin); the addresses in use hold no '*'
isOriginAllowed(origin, allowedUrls) ==
    IF Falsy(origin) THEN FALSE
    ELSE IF IsNullish(allowedUrls) \/ Len(allowedUrls.items) = 0 THEN TRUE
    ELSE \E i \in 1 .. Len(allowedUrls.items) : allowedUrls.items[i] = origin

\* the Access-Control-Allow-Origin header of the response, if any
allowOrigin(origin, urls) ==
    IF ~Falsy(origin) /\ isOriginAllowed(origin, urls) THEN origin
    ELSE IF ~Falsy(origin) /\ ~IsNullish(urls) /\ Len(urls.items) > 0 THEN Undefined
    ELSE IF IsNullish(urls) \/ Len(urls.items) = 0
    THEN IF ~Falsy(origin) THEN origin ELSE Undefined
    ELSE Undefined

\* the inputs
Origins == {Undefined, Str("http://a.com")}

CorsUrls == {Undefined, Arr(<<Str("http://a.com")>>), Arr(<<Str("http://b.com")>>)}

CorsMethods == {"GET", "OPTIONS"}

Pieces == {"x-a", " x-a", "X-A", " x-b ", ""}

RequestedHeaders ==
    {Undefined} \cup
    {HeaderString(pieces) :
        pieces \in UNION {[1 .. n -> Pieces] : n \in 1 .. MaxListed}}

\* `if (requestedHeaders)`: the header is there and is not ""
Requested(requestedHeaders) ==
    /\ requestedHeaders.k = "string"
    /\ requestedHeaders.pieces # <<"">>

\* openCors(app, corsUrl)
CorsInit ==
    /\ value = Undefined
    /\ format = Undefined
    /\ strict = FALSE
    /\ pc = "done"
    /\ result = "none"
    /\ PipelineIdle
    /\ TokenIdle
    /\ ConcurrentIdle
    /\ store = <<>>
    /\ corsUrl \in CorsUrls
    /\ corsRes = Undefined
    /\ listed = {}

\* the middleware, for one request
CorsRequest ==
    \E method \in CorsMethods, origin \in Origins,
       requestedHeaders \in RequestedHeaders :
      LET headers == IF Requested(requestedHeaders)
                     THEN splitTrimFilter(requestedHeaders)
                     ELSE <<>>
          allowHeader == IF Requested(requestedHeaders)
                         THEN mergeHeaders(store, headers)
                         ELSE store
      IN  /\ store' = allowHeader
          /\ listed' = listed \cup {headers[i] : i \in 1 .. Len(headers)}
          /\ corsRes' =
               [k |-> "object",
                asked |-> {headers[i] : i \in 1 .. Len(headers)},
                allowOrigin |-> allowOrigin(origin, corsUrl),
                allowHeaders |-> IF Len(allowHeader) > 0 THEN join(allowHeader)
                                 ELSE <<"*">>,
                allowMethods |-> "PUT, POST, GET, DELETE, OPTIONS, PATCH",
                allowCredentials |-> "true",
                status |-> IF method = "OPTIONS" THEN 204 ELSE 0,
                next |-> method # "OPTIONS"]
          /\ UNCHANGED corsUrl
          /\ UNCHANGED validatorVars
          /\ UNCHANGED pipelineVars
          /\ UNCHANGED tokenVars
          /\ UNCHANGED concurrentVars

CorsNext == CorsRequest

CorsSpec == CorsInit /\ [][CorsNext]_vars

\* the names in the store
Stored == {store[i] : i \in 1 .. Len(store)}

\* no name is in the store twice
NoDuplicates ==
    \A i, j \in 1 .. Len(store) : store[i] = store[j] => i = j

\* the Access-Control-Allow-Headers value names n
Allows(n) ==
    \E i \in 1 .. Len(corsRes.allowHeaders) : corsRes.allowHeaders[i] = n

\* a step removes nothing from the store and moves nothing in it
StoreOnlyGrows ==
    /\ Len(store') >= Len(store)
    /\ SubSeq(store', 1, Len(store)) = store

\* C29: the allowHeader store only grows: after any sequence of requests
\* it holds, without duplicates, every header name an earlier request
\* listed in access-control-request-headers, no entry is ever removed,
\* and the Access-Control-Allow-Headers value of a response names every
\* header name of the store, those of earlier requests included; the value
\* is '*' only while the store is empty.
C29_AllowHeaderStoreGrows ==
    /\ [][StoreOnlyGrows]_vars
    /\ [](/\ NoDuplicates
          /\ Stored = listed
          /\ corsRes # Undefined
             => /\ \A n \in listed : Allows(n)
                /\ (corsRes.allowHeaders = <<"*">>) <=> (store = <<>>))

\* a request that lists no header is answered with the names two earlier
\* requests listed
C29_Witness ==
    /\ corsRes # Undefined
    /\ corsRes.asked = {}
    /\ store = <<"x-a", "x-b">>
    /\ corsRes.allowHeaders = <<"x-a", ", ", "x-b">>

====
